---- MODULE Spec2Model ----
(***************************************************************************)
(* Model of the manager classes of mcp_pygithub: the file push pipeline   *)
(* of FileManager, the empty-repository self-heal of BranchManager, the   *)
(* client cache of DefaultGitHubClientFactory and the source resolution   *)
(* of RepositoryManager.create_branch.  The wrapped REST client is the    *)
(* remote service: its state (references, trees, commits, branches) is    *)
(* part of the model, and one action is one remote call or one local      *)
(* step of a manager method.                                              *)
(***************************************************************************)
EXTENDS Integers, Sequences, FiniteSets, TLC

(***************************************************************************)
(* Bounds and fixed sets                                                   *)
(***************************************************************************)
\* longest file list of one push
MaxFiles == 2

\* get_branch invocations in one run
MaxGetBranchCalls == 2

\* create_client and clear_cache calls made one after the other in one run
MaxAuthOps == 4

\* create_branch invocations in one run
MaxCreateBranchCalls == 2

\* the pipeline invocations (separate callers, possibly separate servers)
Procs == {"p1", "p2"}

\* branches of the remote repository
Branches == {"main", "dev"}

\* repository paths pushed and local filesystem paths read
RepoPaths == {"A", "B"}
LocalPaths == {"fa", "fb"}

\* FilePath(path, filepath) mappings a push from the filesystem may list
FilePaths == {[path |-> "A", filepath |-> "fa"], [path |-> "B", filepath |-> "fb"]}

\* None / empty SHA, and the SHA of the commit both branches start on
None == 0
InitialCommit == 1

\* github.GithubObject.NotSet, as a tree base
NotSet == 0 - 1

(***************************************************************************)
(* State                                                                   *)
(***************************************************************************)
VARIABLES
    refs,        \* remote: branch name -> head commit SHA
    trees,       \* remote: tree SHA -> [tree, base_tree]
    commits,     \* remote: commit SHA -> [message, tree, parents]
    nextSha,     \* remote: next SHA the service hands out
    fs,          \* local filesystem: path -> "absent" or the text content
    pc,          \* position of each invocation in the pipeline
    config,      \* PushFilesContentConfig of each invocation
    local_paths, \* PushFilesFromPathConfig.files of each invocation
    commit_sha,  \* push_files_content: the head captured in step 1
    tree,        \* push_files_content: SHA of the tree created
    commit,      \* push_files_content: SHA of the commit created
    err,         \* the error each invocation raised, "none" if none
    calls        \* remote calls each invocation issued so far, in order

VARIABLES
    repo_commits,   \* remote: number of commits in the repository
    repo_branches,  \* remote: names of the branches that exist
    gb_pc,          \* position of the get_branch invocation
    gb_branch,      \* get_branch: the branch asked for
    gb_e,           \* get_branch: message of the exception caught
    gb_raised,      \* get_branch: message of the error that propagated
    gb_calls,       \* get_branch: remote calls of this invocation, in order
    gb_empty_start, \* the repository had no commit when the invocation began
    gb_done         \* number of get_branch invocations completed

VARIABLES
    clients,      \* DefaultGitHubClientFactory._clients: token -> handle
    constructed,  \* number of client objects constructed so far
    auth_log,     \* completed create_client and clear_cache calls, in order
    cc_pc,        \* position of each concurrent create_client caller
    cc_token,     \* create_client: the token of each caller
    cc_new,       \* create_client: the client object a caller constructed
    cc_result     \* create_client: the handle returned to each caller

VARIABLES
    cb_refs,        \* remote: the references create_git_ref created -> SHA
    cb_pc,          \* position of the create_branch invocation
    cb_name,        \* create_branch: name of the new branch
    cb_source,      \* create_branch: source branch or commit SHA
    cb_mock,        \* create_branch: the repository object has _branches
    cb_source_sha,  \* create_branch: the SHA resolved for the reference
    cb_calls,       \* create_branch: remote calls of this invocation
    cb_result,      \* create_branch: the dictionary returned
    cb_err,         \* create_branch: the error raised, "none" if none
    cb_done         \* number of create_branch invocations completed

createVars == <<cb_refs, cb_pc, cb_name, cb_source, cb_mock, cb_source_sha,
                cb_calls, cb_result, cb_err, cb_done>>

authVars == <<clients, constructed, auth_log, cc_pc, cc_token, cc_new,
              cc_result>>

branchVars == <<repo_commits, repo_branches, gb_pc, gb_branch, gb_e,
                gb_raised, gb_calls, gb_empty_start, gb_done>>

pushVars == <<refs, trees, commits, nextSha, fs, pc, config, local_paths,
              commit_sha, tree, commit, err, calls>>

(***************************************************************************)
(* Helpers                                                                 *)
(***************************************************************************)
\* sequences over S of length 1..n
SeqsUpTo(S, n) == UNION {[1..k -> S] : k \in 1..n}

\* f extended or overwritten at key k
Put(f, k, v) == [x \in (DOMAIN f) \cup {k} |-> IF x = k THEN v ELSE f[x]]

\* subsequence of the calls in s whose operation is in ops
RECURSIVE SelectCalls(_, _)
SelectCalls(s, ops) ==
    IF s = <<>> THEN <<>>
    ELSE IF Head(s).op \in ops
         THEN <<Head(s)>> \o SelectCalls(Tail(s), ops)
         ELSE SelectCalls(Tail(s), ops)

\* one remote call in the log: operation, reference, SHA passed or
\* returned, the two further arguments of tree and commit creation, and
\* the head the remote had for the invocation's branch when it served the call
Call(op, ref, sha, a, b, head) ==
    [op |-> op, ref |-> ref, sha |-> sha, a |-> a, b |-> b, head |-> head]

\* commits reachable from commit c through parent links
RECURSIVE Ancestors(_)
Ancestors(c) ==
    IF c \notin DOMAIN commits THEN {}
    ELSE {c} \cup UNION {Ancestors(commits[c].parents[i]) :
                            i \in 1..Len(commits[c].parents)}

(***************************************************************************)
(* FileManager                                                             *)
(***************************************************************************)
\* FileContent(path, content)
FileContent(path, content) == [path |-> path, content |-> content]

\* the files of a content push: distinct contents per path
ContentFiles == {FileContent(p, "text-" \o p) : p \in RepoPaths}

\* create_tree: one element per file, base_tree or NotSet
tree_elements(files) ==
    [i \in 1..Len(files) |->
        [path |-> files[i].path, mode |-> "100644", type |-> "blob",
         content |-> files[i].content]]

create_tree(files, base_tree) ==
    [tree |-> tree_elements(files),
     base_tree |-> IF base_tree # None THEN base_tree ELSE NotSet]

\* create_commit: the commit object submitted
create_commit_no_parents(message, t, parents) ==
    [message |-> message, tree |-> t, parents |-> <<>>]

create_commit(message, t, parents) ==
    [message |-> message, tree |-> t, parents |-> parents]

\* update_reference is called by the pipeline with the default force=True
update_reference_no_force == FALSE

update_reference_force == TRUE

\* git_ref.edit(sha, force) on the remote: a forced update always moves
\* the reference, an unforced one only fast-forwards
EditAccepted(branch, sha, force) ==
    force \/ refs[branch] \in Ancestors(sha)

\* the loop of push_files_from_path over config.files: "FileNotFoundError"
\* at the first path that does not exist, else the FileContent list
RECURSIVE ReadLocalFilesSkipMissing(_, _)
ReadLocalFilesSkipMissing(file_paths, files) ==
    IF file_paths = <<>> THEN files
    ELSE IF fs[Head(file_paths).filepath] = "absent"
         THEN ReadLocalFilesSkipMissing(Tail(file_paths), files)
         ELSE ReadLocalFilesSkipMissing(Tail(file_paths),
                 Append(files, FileContent(Head(file_paths).path,
                                           fs[Head(file_paths).filepath])))

RECURSIVE ReadLocalFiles(_, _)
ReadLocalFiles(file_paths, files) ==
    IF file_paths = <<>> THEN files
    ELSE IF fs[Head(file_paths).filepath] = "absent"
         THEN "FileNotFoundError"
         ELSE ReadLocalFiles(Tail(file_paths),
                 Append(files, FileContent(Head(file_paths).path,
                                           fs[Head(file_paths).filepath])))

\* the head of the branch an invocation pushes to, as the remote has it now
RemoteHead(p) == refs[config[p].branch]

\* the arguments push_files_content passes on: the captured head as the
\* base of the tree and as the only parent of the commit
tree_base(p) == commit_sha[p]

commit_parents_reread(p) == <<refs[config[p].branch]>>

commit_parents(p) == <<commit_sha[p]>>

\* push_files_content is entered with a config
push_files_content(p) ==
    /\ pc[p] = "idle"
    /\ \E b \in Branches, files \in SeqsUpTo(ContentFiles, MaxFiles) :
          config' = [config EXCEPT ![p] =
                        [branch |-> b, files |-> files, message |-> "msg-" \o p]]
    /\ pc' = [pc EXCEPT ![p] = "resolve"]
    /\ UNCHANGED <<refs, trees, commits, nextSha, fs, local_paths, commit_sha,
                   tree, commit, err, calls>>

\* push_files_from_path: read every local file, then enter the pipeline
push_files_from_path(p) ==
    /\ pc[p] = "idle"
    /\ \E b \in Branches,
          file_paths \in SeqsUpTo(FilePaths, MaxFiles) :
          LET files == ReadLocalFiles(file_paths, <<>>) IN
          /\ local_paths' = [local_paths EXCEPT ![p] = file_paths]
          /\ IF files = "FileNotFoundError"
             THEN /\ err' = [err EXCEPT ![p] = "FileNotFoundError"]
                  /\ pc' = [pc EXCEPT ![p] = "failed"]
                  /\ UNCHANGED config
             ELSE /\ config' = [config EXCEPT ![p] =
                        [branch |-> b, files |-> files, message |-> "msg-" \o p]]
                  /\ pc' = [pc EXCEPT ![p] = "resolve"]
                  /\ UNCHANGED err
    /\ UNCHANGED <<refs, trees, commits, nextSha, fs, commit_sha, tree,
                   commit, calls>>

\* step 1: ref = get_git_ref("heads/" + branch); commit_sha = ref.object.sha
ResolveHead(p) ==
    /\ pc[p] = "resolve"
    /\ commit_sha' = [commit_sha EXCEPT ![p] = refs[config[p].branch]]
    /\ calls' = [calls EXCEPT ![p] =
          Append(@, Call("get_git_ref", config[p].branch,
                         refs[config[p].branch], None, <<>>, RemoteHead(p)))]
    /\ pc' = [pc EXCEPT ![p] = "tree"]
    /\ UNCHANGED <<refs, trees, commits, nextSha, fs, config, local_paths, tree,
                   commit, err>>

\* step 2: tree = create_tree(config.files, commit_sha)
BuildTree(p) ==
    /\ pc[p] = "tree"
    /\ LET t == create_tree(config[p].files, tree_base(p)) IN
          /\ trees' = Put(trees, nextSha, t)
          /\ calls' = [calls EXCEPT ![p] =
                Append(@, Call("create_git_tree", "", nextSha, t.base_tree,
                               t.tree, RemoteHead(p)))]
    /\ tree' = [tree EXCEPT ![p] = nextSha]
    /\ nextSha' = nextSha + 1
    /\ pc' = [pc EXCEPT ![p] = "commit"]
    /\ UNCHANGED <<refs, commits, fs, config, local_paths, commit_sha, commit, err>>

\* step 3: commit = create_commit(config.message, tree.sha, [commit_sha])
CreateCommit(p) ==
    /\ pc[p] = "commit"
    /\ LET c == create_commit(config[p].message, tree[p], commit_parents(p)) IN
          /\ commits' = Put(commits, nextSha, c)
          /\ calls' = [calls EXCEPT ![p] =
                Append(@, Call("create_git_commit", "", nextSha, c.tree,
                               c.parents, RemoteHead(p)))]
    /\ commit' = [commit EXCEPT ![p] = nextSha]
    /\ nextSha' = nextSha + 1
    /\ pc' = [pc EXCEPT ![p] = "getref"]
    /\ UNCHANGED <<refs, trees, fs, config, local_paths, commit_sha, tree, err>>

\* step 4a: update_reference reads the reference again
UpdateGetRef(p) ==
    /\ pc[p] = "getref"
    /\ calls' = [calls EXCEPT ![p] =
          Append(@, Call("get_git_ref", config[p].branch,
                         refs[config[p].branch], None, <<>>, RemoteHead(p)))]
    /\ pc' = [pc EXCEPT ![p] = "edit"]
    /\ UNCHANGED <<refs, trees, commits, nextSha, fs, config, local_paths,
                   commit_sha, tree, commit, err>>

\* step 4b: git_ref.edit(sha=commit["sha"], force=True)
MoveReference(p) ==
    /\ pc[p] = "edit"
    /\ calls' = [calls EXCEPT ![p] =
          Append(@, Call("edit", config[p].branch, commit[p], None, <<>>,
                         RemoteHead(p)))]
    /\ IF EditAccepted(config[p].branch, commit[p], update_reference_force)
       THEN /\ refs' = [refs EXCEPT ![config[p].branch] = commit[p]]
            /\ pc' = [pc EXCEPT ![p] = "done"]
            /\ UNCHANGED err
       ELSE /\ err' = [err EXCEPT ![p] = "GithubException"]
            /\ pc' = [pc EXCEPT ![p] = "failed"]
            /\ UNCHANGED refs
    /\ UNCHANGED <<trees, commits, nextSha, fs, config, local_paths, commit_sha,
                   tree, commit>>

\* where an invocation goes when the remote call of a step raises: the
\* pipeline has no try block, so the exception leaves push_files_content
on_remote_error_retry(step) == step

on_remote_error(step) == "failed"

\* a remote call of the pipeline raises: nothing catches it, so the
\* invocation ends with that error and issues no further call
RemoteCallFails(p) ==
    /\ pc[p] \in {"resolve", "tree", "commit", "getref", "edit"}
    /\ calls' = [calls EXCEPT ![p] =
          Append(@, Call("failed:" \o pc[p], "", None, None, <<>>,
                         RemoteHead(p)))]
    /\ err' = [err EXCEPT ![p] = "GithubException"]
    /\ pc' = [pc EXCEPT ![p] = on_remote_error(pc[p])]
    /\ UNCHANGED <<refs, trees, commits, nextSha, fs, config, local_paths,
                   commit_sha, tree, commit>>

NoConfig == [branch |-> "", files |-> <<>>, message |-> ""]

\* the local filesystems a run may start with: each path absent or a text
LocalFilesystems == [LocalPaths -> {"absent", "local text"}]

PushInitWith(files) ==
    /\ refs = [b \in Branches |-> InitialCommit]
    /\ trees = <<>>
    /\ commits = (InitialCommit :> create_commit("initial", None, <<>>))
    /\ nextSha = InitialCommit + 1
    /\ fs = files
    /\ pc = [p \in Procs |-> "idle"]
    /\ config = [p \in Procs |-> NoConfig]
    /\ local_paths = [p \in Procs |-> <<>>]
    /\ commit_sha = [p \in Procs |-> None]
    /\ tree = [p \in Procs |-> None]
    /\ commit = [p \in Procs |-> None]
    /\ err = [p \in Procs |-> "none"]
    /\ calls = [p \in Procs |-> <<>>]

PushInit == \E files \in LocalFilesystems : PushInitWith(files)

\* the pipeline at rest, for the runs of the other managers
PushIdle == PushInitWith([f \in LocalPaths |-> "absent"])

(***************************************************************************)
(* BranchManager.get_branch                                                *)
(***************************************************************************)
\* branch names a caller may ask for, and the repository's default branch
BranchNames == {"main", "dev", "gone"}
default_branch == "main"

\* error messages of the remote service, as words
BranchNotFound == <<"404", "Branch", "not", "found">>
ServerError == <<"500", "Server", "Error">>
RepoNotFound == <<"404", "Not", "Found">>
NoError == <<>>

\* pat in msg: pat occurs in msg as a contiguous part
Contains(msg, pat) ==
    \E i \in 1..(Len(msg) - Len(pat) + 1) :
        SubSeq(msg, i, i + Len(pat) - 1) = pat

\* "Branch not found" in str(e)
IsBranchNotFound(e) == Contains(e, <<"Branch", "not", "found">>)

\* the seed file create_file is called with
seed_on_requested_branch(branch) ==
    [path |-> "README.md", message |-> "Initial commit", branch |-> branch]

seed_file(branch) ==
    [path |-> "README.md", message |-> "Initial commit",
     branch |-> default_branch]

\* not list(get_commits())
no_commits_always(n) == TRUE

no_commits(n) == n = 0

\* outcomes of repository.get_branch(branch) on the remote: the branch, the
\* not-found error when it does not exist, or a failure of another cause
LookupOutcomes(branch) ==
    {ServerError, RepoNotFound} \cup
    (IF branch \in repo_branches THEN {NoError} ELSE {BranchNotFound})

GbCall(op, arg) == [op |-> op, arg |-> arg]

\* get_branch(branch) is entered
get_branch(branch) ==
    /\ gb_pc = "idle"
    /\ gb_done < MaxGetBranchCalls
    /\ gb_pc' = "lookup"
    /\ gb_branch' = branch
    /\ gb_e' = NoError
    /\ gb_raised' = NoError
    /\ gb_calls' = <<>>
    /\ gb_empty_start' = (repo_commits = 0)
    /\ UNCHANGED <<repo_commits, repo_branches, gb_done>>

\* try: return repository.get_branch(branch); except: the message decides
\* between the empty-repository check and re-raising
GbLookup ==
    /\ gb_pc = "lookup"
    /\ gb_calls' = Append(gb_calls, GbCall("get_branch", gb_branch))
    /\ \E e \in LookupOutcomes(gb_branch) :
          /\ gb_e' = e
          /\ IF e = NoError
             THEN gb_pc' = "returned" /\ UNCHANGED gb_raised
             ELSE IF IsBranchNotFound(e)
                  THEN gb_pc' = "commits" /\ UNCHANGED gb_raised
                  ELSE gb_pc' = "raised" /\ gb_raised' = e
    /\ UNCHANGED <<repo_commits, repo_branches, gb_branch, gb_empty_start,
                   gb_done>>

\* if not list(repository.get_commits()): seed, else raise the caught error
GbListCommits ==
    /\ gb_pc = "commits"
    /\ gb_calls' = Append(gb_calls, GbCall("get_commits", repo_commits))
    /\ IF no_commits(repo_commits)
       THEN gb_pc' = "seed" /\ UNCHANGED gb_raised
       ELSE gb_pc' = "raised" /\ gb_raised' = gb_e
    /\ UNCHANGED <<repo_commits, repo_branches, gb_branch, gb_e,
                   gb_empty_start, gb_done>>

\* repository.create_file("README.md", ..., branch=default_branch)
GbSeed ==
    /\ gb_pc = "seed"
    /\ LET f == seed_file(gb_branch) IN
          /\ gb_calls' = Append(gb_calls, GbCall("create_file", f))
          /\ repo_branches' = repo_branches \cup {f.branch}
    /\ repo_commits' = repo_commits + 1
    /\ gb_pc' = "retry"
    /\ UNCHANGED <<gb_branch, gb_e, gb_raised, gb_empty_start, gb_done>>

\* return repository.get_branch(branch): a failure here is not caught
GbRetry ==
    /\ gb_pc = "retry"
    /\ gb_calls' = Append(gb_calls, GbCall("get_branch", gb_branch))
    /\ \E e \in LookupOutcomes(gb_branch) :
          IF e = NoError
          THEN gb_pc' = "returned" /\ UNCHANGED gb_raised
          ELSE gb_pc' = "raised" /\ gb_raised' = e
    /\ UNCHANGED <<repo_commits, repo_branches, gb_branch, gb_e,
                   gb_empty_start, gb_done>>

\* the invocation is over; the manager is ready for the next one
GbFinish ==
    /\ gb_pc \in {"returned", "raised"}
    /\ gb_done < MaxGetBranchCalls
    /\ gb_done' = gb_done + 1
    /\ gb_pc' = "idle"
    /\ UNCHANGED <<repo_commits, repo_branches, gb_branch, gb_e, gb_raised,
                   gb_calls, gb_empty_start>>

\* the repositories a run may start with: empty, or one commit on main
InitialRepos == {<<0, {}>>, <<1, {"main"}>>, <<1, {"main", "dev"}>>}

BranchInitWith(r) ==
    /\ repo_commits = r[1]
    /\ repo_branches = r[2]
    /\ gb_pc = "idle"
    /\ gb_branch = ""
    /\ gb_e = NoError
    /\ gb_raised = NoError
    /\ gb_calls = <<>>
    /\ gb_empty_start = FALSE
    /\ gb_done = 0

BranchInit == \E r \in InitialRepos : BranchInitWith(r)

BranchIdle == BranchInitWith(<<0, {}>>)

(***************************************************************************)
(* DefaultGitHubClientFactory                                              *)
(***************************************************************************)
\* credential strings, and the threads that call create_client concurrently
Tokens == {"tok-a", "tok-b"}
Threads == {"t1", "t2", "t3"}

\* no handle
NoClient == 0

\* token not in self._clients
never_cached(cache, token) == TRUE

not_cached(cache, token) == token \notin DOMAIN cache

\* self._clients.clear()
cleared_nothing(cache) == cache

cleared(cache) == <<>>

\* create_client(token), run without interruption: construct and cache the
\* client if the token is not cached, return the cached handle
create_client(token) ==
    /\ Len(auth_log) < MaxAuthOps
    /\ LET built == IF not_cached(clients, token) THEN 1 ELSE 0
           cache == IF built = 1
                    THEN Put(clients, token, constructed + 1)
                    ELSE clients
       IN /\ clients' = cache
          /\ constructed' = constructed + built
          /\ auth_log' = Append(auth_log,
                [op |-> "create_client", token |-> token,
                 handle |-> cache[token], built |-> built])
    /\ UNCHANGED <<cc_pc, cc_token, cc_new, cc_result>>

\* clear_cache()
clear_cache ==
    /\ Len(auth_log) < MaxAuthOps
    /\ clients' = cleared(clients)
    /\ auth_log' = Append(auth_log,
            [op |-> "clear_cache", token |-> "", handle |-> NoClient,
             built |-> 0])
    /\ UNCHANGED <<constructed, cc_pc, cc_token, cc_new, cc_result>>

\* create_client(token) called from a thread: the statements of the method
\* are separate steps, other threads may run between them
CcEnter(t, token) ==
    /\ cc_pc[t] = "idle"
    /\ cc_token' = [cc_token EXCEPT ![t] = token]
    /\ cc_pc' = [cc_pc EXCEPT ![t] = "check"]
    /\ UNCHANGED <<clients, constructed, auth_log, cc_new, cc_result>>

\* if token not in self._clients
CcCheck(t) ==
    /\ cc_pc[t] = "check"
    /\ cc_pc' = [cc_pc EXCEPT ![t] =
                    IF not_cached(clients, cc_token[t]) THEN "construct"
                    ELSE "return"]
    /\ UNCHANGED <<clients, constructed, auth_log, cc_token, cc_new, cc_result>>

\* self._github_class(login_or_token=token)
CcConstruct(t) ==
    /\ cc_pc[t] = "construct"
    /\ constructed' = constructed + 1
    /\ cc_new' = [cc_new EXCEPT ![t] = constructed + 1]
    /\ cc_pc' = [cc_pc EXCEPT ![t] = "store"]
    /\ UNCHANGED <<clients, auth_log, cc_token, cc_result>>

\* self._clients[token] = <the new client>
CcStore(t) ==
    /\ cc_pc[t] = "store"
    /\ clients' = Put(clients, cc_token[t], cc_new[t])
    /\ cc_pc' = [cc_pc EXCEPT ![t] = "return"]
    /\ UNCHANGED <<constructed, auth_log, cc_token, cc_new, cc_result>>

\* return self._clients[token]
CcReturn(t) ==
    /\ cc_pc[t] = "return"
    /\ cc_result' = [cc_result EXCEPT ![t] = clients[cc_token[t]]]
    /\ cc_pc' = [cc_pc EXCEPT ![t] = "done"]
    /\ UNCHANGED <<clients, constructed, auth_log, cc_token, cc_new>>

AuthInit ==
    /\ clients = <<>>
    /\ constructed = 0
    /\ auth_log = <<>>
    /\ cc_pc = [t \in Threads |-> "idle"]
    /\ cc_token = [t \in Threads |-> ""]
    /\ cc_new = [t \in Threads |-> NoClient]
    /\ cc_result = [t \in Threads |-> NoClient]

(***************************************************************************)
(* RepositoryManager.create_branch                                         *)
(***************************************************************************)
\* names for the new branch and values passed as source: a branch name, an
\* abbreviated SHA, a full SHA, and a string the remote knows nothing of
NewBranchNames == {"topic", "main"}
Sources == {"main", "c0ffee1", "c0ffee1234", "unknown"}

\* the remote: head commit of each branch, and the commit each revision
\* string resolves to
SourceHeads == [b \in {"main"} |-> "ab12ab1234"]
SourceCommits ==
    [r \in {"main", "c0ffee1", "c0ffee1234", "ab12ab1234"} |->
        IF r \in {"c0ffee1", "c0ffee1234"} THEN "c0ffee1234" ELSE "ab12ab1234"]

\* the fixed SHA returned for a repository object that has _branches
MockSha == "bb328f56c14d9653891f9e74264a383fa43fefcd"

NoSha == ""

\* f"refs/heads/{name}"
ref_name(name) == "refs/heads/" \o name

\* source_sha = source, when both lookups failed
raw_source_unset(source) == NoSha

raw_source(source) == source

CbCall(op, arg, ok, sha) == [op |-> op, arg |-> arg, ok |-> ok, sha |-> sha]

NoResult == [name |-> "", sha |-> NoSha]

\* create_branch(name, source) is entered
create_branch(name, source, mock) ==
    /\ cb_pc = "idle"
    /\ cb_done < MaxCreateBranchCalls
    /\ cb_name' = name
    /\ cb_source' = source
    /\ cb_mock' = mock
    /\ cb_source_sha' = NoSha
    /\ cb_calls' = <<>>
    /\ cb_result' = NoResult
    /\ cb_err' = "none"
    /\ cb_pc' = "get_repository"
    /\ UNCHANGED <<cb_refs, cb_done>>

\* repo = await self.get_repository(): a failure propagates as it is
CbGetRepository ==
    /\ cb_pc = "get_repository"
    /\ \E ok \in BOOLEAN :
          /\ cb_calls' = Append(cb_calls, CbCall("get_repo", "", ok, NoSha))
          /\ IF ok THEN cb_pc' = "get_branch" /\ UNCHANGED cb_err
             ELSE cb_pc' = "raised" /\ cb_err' = "GithubException"
    /\ UNCHANGED <<cb_refs, cb_name, cb_source, cb_mock, cb_source_sha,
                   cb_result, cb_done>>

\* try: source_sha = repo.get_branch(source).commit.sha; any exception
\* leads to the commit lookup
CbGetBranch ==
    /\ cb_pc = "get_branch"
    /\ \E ok \in {cb_source \in DOMAIN SourceHeads, FALSE} :
          IF ok
          THEN /\ cb_source_sha' = SourceHeads[cb_source]
               /\ cb_calls' = Append(cb_calls,
                     CbCall("get_branch", cb_source, TRUE,
                            SourceHeads[cb_source]))
               /\ cb_pc' = "create_ref"
          ELSE /\ cb_calls' = Append(cb_calls,
                     CbCall("get_branch", cb_source, FALSE, NoSha))
               /\ cb_pc' = "get_commit"
               /\ UNCHANGED cb_source_sha
    /\ UNCHANGED <<cb_refs, cb_name, cb_source, cb_mock, cb_result, cb_err,
                   cb_done>>

\* try: source_sha = repo.get_commit(source).sha; any exception leads to
\* source_sha = source
CbGetCommit ==
    /\ cb_pc = "get_commit"
    /\ \E ok \in {cb_source \in DOMAIN SourceCommits, FALSE} :
          IF ok
          THEN /\ cb_source_sha' = SourceCommits[cb_source]
               /\ cb_calls' = Append(cb_calls,
                     CbCall("get_commit", cb_source, TRUE,
                            SourceCommits[cb_source]))
          ELSE /\ cb_source_sha' = raw_source(cb_source)
               /\ cb_calls' = Append(cb_calls,
                     CbCall("get_commit", cb_source, FALSE, NoSha))
    /\ cb_pc' = "create_ref"
    /\ UNCHANGED <<cb_refs, cb_name, cb_source, cb_mock, cb_result, cb_err,
                   cb_done>>

\* a repository object with _branches gets the fixed SHA and no remote call;
\* otherwise repo.create_git_ref(f"refs/heads/{name}", source_sha), whose
\* failure is raised as RepositoryError
CbCreateRef ==
    /\ cb_pc = "create_ref"
    /\ IF cb_mock
       THEN /\ cb_result' = [name |-> cb_name, sha |-> MockSha]
            /\ cb_pc' = "returned"
            /\ UNCHANGED <<cb_refs, cb_calls, cb_err>>
       ELSE \E ok \in { /\ ref_name(cb_name) \notin DOMAIN cb_refs
                        /\ cb_name \notin DOMAIN SourceHeads
                        /\ cb_source_sha \in DOMAIN SourceCommits
                        /\ SourceCommits[cb_source_sha] = cb_source_sha,
                        FALSE } :
              /\ cb_calls' = Append(cb_calls,
                    CbCall("create_git_ref", ref_name(cb_name), ok,
                           cb_source_sha))
              /\ IF ok
                 THEN /\ cb_refs' = Put(cb_refs, ref_name(cb_name),
                                        cb_source_sha)
                      /\ cb_result' = [name |-> cb_name,
                                       sha |-> cb_source_sha]
                      /\ cb_pc' = "returned"
                      /\ UNCHANGED cb_err
                 ELSE /\ cb_err' = "RepositoryError"
                      /\ cb_pc' = "raised"
                      /\ UNCHANGED <<cb_refs, cb_result>>
    /\ UNCHANGED <<cb_name, cb_source, cb_mock, cb_source_sha, cb_done>>

\* the invocation is over; the manager is ready for the next one
CbFinish ==
    /\ cb_pc \in {"returned", "raised"}
    /\ cb_done < MaxCreateBranchCalls
    /\ cb_done' = cb_done + 1
    /\ cb_pc' = "idle"
    /\ UNCHANGED <<cb_refs, cb_name, cb_source, cb_mock, cb_source_sha,
                   cb_calls, cb_result, cb_err>>

CreateInit ==
    /\ cb_refs = <<>>
    /\ cb_pc = "idle"
    /\ cb_name = ""
    /\ cb_source = ""
    /\ cb_mock = FALSE
    /\ cb_source_sha = NoSha
    /\ cb_calls = <<>>
    /\ cb_result = NoResult
    /\ cb_err = "none"
    /\ cb_done = 0

\* ------------------------------------------------------------------
\* ActionManager (operations/actions.py): workflows and workflow runs
\* ------------------------------------------------------------------

VARIABLES
    am_op,      \* the method called last
    am_in,      \* its arguments and the remote state it ran against
    am_calls,   \* the remote calls it made, in order
    am_out      \* what it returned or raised

actionVars == <<am_op, am_in, am_calls, am_out>>

\* an optional argument: None, the NotSet sentinel, or a value
NoneValue == [tag |-> "None", v |-> ""]
NotSetValue == [tag |-> "NotSet", v |-> ""]
Some(x) == [tag |-> "value", v |-> x]
\* None where the value would be a list or a string of characters
NoneSeq == [tag |-> "None", v |-> <<>>]

\* characters of a workflow_id, and the longest workflow_id tried
Digits == {"1", "2"}
IdChars == Digits \cup {"a"}
MaxIdLen == 2
WorkflowIds == SeqsUpTo(IdChars, MaxIdLen)

\* str.isdigit(): non-empty and all digits
isdigit(s) == Len(s) > 0 /\ \A i \in 1..Len(s) : s[i] \in Digits

DigitValue(c) == IF c = "1" THEN 1 ELSE 2

\* int(s) of a digit string
RECURSIVE int(_)
int(s) ==
    IF Len(s) = 0 THEN 0
    ELSE 10 * int(SubSeq(s, 1, Len(s) - 1)) + DigitValue(s[Len(s)])

\* path.endswith(s)
endswith(path, s) ==
    /\ Len(s) <= Len(path)
    /\ SubSeq(path, Len(path) - Len(s) + 1, Len(path)) = s

\* the workflows of the repository, in the order the remote lists them
WorkflowA == [id |-> 1, path |-> <<"b", "a">>]
WorkflowB == [id |-> 12, path |-> <<"b", "a", "a">>]
WorkflowLists == {<<>>, <<WorkflowA, WorkflowB>>, <<WorkflowB, WorkflowA>>}

\* the workflow runs of the repository
Run(id, wf, branch, event, status) ==
    [id |-> id, workflow |-> wf, branch |-> branch, event |-> event,
     status |-> status]
RepoRuns ==
    << Run(1, 1, "main", "push", "completed"),
       Run(2, 1, "dev", "push", "queued"),
       Run(3, 12, "main", "pull_request", "completed"),
       Run(4, 1, "main", "pull_request", "queued") >>
RunIds == {1, 2, 3, 4, 5}
RunBranches == {"main", "dev"}
RunEvents == {"push", "pull_request"}
RunStatuses == {"completed", "queued"}

\* the remote call that fails with a server error, if one does
NoFailure == "none"
\* the remote calls a method can reach
WorkflowLookupCalls == {"get_workflow", "get_workflows"}
ListRunsCalls ==
    WorkflowLookupCalls \cup {"get_runs", "get_workflow_runs", "get_branch",
                              "get_event", "get_status"}
Failures(reachable) == reachable \cup {NoFailure}

\* str(e) of the remote's "unknown object" answer
UnknownObject == <<"404", "Not", "Found">>

AmCall(op, num, str) == [op |-> op, num |-> num, str |-> str]

\* a returned value, and a raised exception with its __cause__
Ok(value) ==
    [ok |-> TRUE, value |-> value, class |-> "", msg |-> <<>>,
     cause |-> <<>>]
Raise(class, msg, cause) ==
    [ok |-> FALSE, value |-> <<>>, class |-> class, msg |-> msg,
     cause |-> cause]
Ran(log, out) == [calls |-> log, out |-> out]

\* "Not Found" in str(e)
IsNotFound(msg) == Contains(msg, <<"Not", "Found">>)

\* f"Workflow not found: {workflow_id}"
WorkflowNotFoundMsg(workflow_id) ==
    <<"Workflow", "not", "found:">> \o workflow_id

\* the body of the try block of get_workflow
get_workflow_try(workflow_id, ws, fail) ==
    IF isdigit(workflow_id)
    THEN LET n == int(workflow_id)
             c == <<AmCall("get_workflow", n, "")>>
         IN  IF fail = "get_workflow"
             THEN Ran(c, Raise("GithubException", ServerError, <<>>))
             ELSE IF \E i \in 1..Len(ws) : ws[i].id = n
             THEN Ran(c, Ok(<<CHOOSE w \in {ws[i] : i \in 1..Len(ws)} :
                                  w.id = n>>))
             ELSE Ran(c, Raise("UnknownObjectException", UnknownObject, <<>>))
    ELSE LET c == <<AmCall("get_workflows", 0, "")>>
             hits == {i \in 1..Len(ws) : endswith(ws[i].path, workflow_id)}
         IN  IF fail = "get_workflows"
             THEN Ran(c, Raise("GithubException", ServerError, <<>>))
             ELSE IF hits # {}
             THEN Ran(c, Ok(<<ws[CHOOSE i \in hits :
                                     \A j \in hits : i <= j]>>))
             ELSE Ran(c, Raise("NotFoundError",
                               WorkflowNotFoundMsg(workflow_id), <<>>))

\* the except clause of get_workflow: every exception is matched on its text
get_workflow_except(workflow_id, e) ==
    IF IsNotFound(e.msg)
    THEN Raise("NotFoundError", WorkflowNotFoundMsg(workflow_id), e.msg)
    ELSE Raise("GitHubError", <<"Error", "getting", "workflow:">> \o e.msg,
               e.msg)

GetWorkflow(workflow_id, ws, fail) ==
    LET r == get_workflow_try(workflow_id, ws, fail)
    IN  IF r.out.ok THEN r
        ELSE Ran(r.calls, get_workflow_except(workflow_id, r.out))

RunNotFoundMsg == <<"Workflow", "run", "not", "found:", "run_id">>

\* get_workflow_run(run_id)
GetWorkflowRun(run_id, fail) ==
    LET c == <<AmCall("get_workflow_run", run_id, "")>>
        e == IF fail = "get_workflow_run" THEN ServerError ELSE UnknownObject
    IN  IF fail # "get_workflow_run" /\ \E i \in 1..Len(RepoRuns) :
                                            RepoRuns[i].id = run_id
        THEN Ran(c, Ok(<<RepoRuns[run_id]>>))
        ELSE IF IsNotFound(e)
        THEN Ran(c, Raise("NotFoundError", RunNotFoundMsg, e))
        ELSE Ran(c, Raise("GitHubError",
                          <<"Error", "getting", "workflow", "run:">> \o e, e))

\* workflow.get_runs() / repository.get_workflow_runs()
RunsOfWorkflow(w) == SelectSeq(RepoRuns, LAMBDA r : r.workflow = w.id)

\* "if workflow_id:" is true for a non-empty string
Truthy(opt) == opt.tag = "value" /\ Len(opt.v) > 0

FilterStep(op, value) == [op |-> op, value |-> value]

\* the filters applied to the runs, in the order of the if statements
filter_steps_status_first(branch, event, status) ==
    (IF status # NoneValue THEN <<FilterStep("get_status", status.v)>>
     ELSE <<>>)
    \o (IF branch # NoneValue THEN <<FilterStep("get_branch", branch.v)>>
        ELSE <<>>)
    \o (IF event # NoneValue THEN <<FilterStep("get_event", event.v)>>
        ELSE <<>>)

filter_steps(branch, event, status) ==
    (IF branch # NoneValue THEN <<FilterStep("get_branch", branch.v)>>
     ELSE <<>>)
    \o (IF event # NoneValue THEN <<FilterStep("get_event", event.v)>>
        ELSE <<>>)
    \o (IF status # NoneValue THEN <<FilterStep("get_status", status.v)>>
        ELSE <<>>)

\* filtered_runs.get_branch(b) / .get_event(e) / .get_status(s)
ApplyFilter(runs, step) ==
    IF step.op = "get_branch"
    THEN SelectSeq(runs, LAMBDA r : r.branch = step.value)
    ELSE IF step.op = "get_event"
    THEN SelectSeq(runs, LAMBDA r : r.event = step.value)
    ELSE SelectSeq(runs, LAMBDA r : r.status = step.value)

ListRunsErrorMsg(msg) == <<"Error", "listing", "workflow", "runs:">> \o msg

\* the chain of filters, each applied to the result of the one before
RECURSIVE ApplySteps(_, _, _, _)
ApplySteps(runs, steps, fail, log) ==
    IF steps = <<>> THEN Ran(log, Ok(runs))
    ELSE LET step == Head(steps)
             c == Append(log, AmCall(step.op, 0, step.value))
         IN  IF fail = step.op
             THEN Ran(c, Raise("GitHubError", ListRunsErrorMsg(ServerError),
                               ServerError))
             ELSE ApplySteps(ApplyFilter(runs, step), Tail(steps), fail, c)

\* list_workflow_runs(workflow_id, branch, event, status)
ListWorkflowRuns(workflow_id, branch, event, status, ws, fail) ==
    LET steps == filter_steps(branch, event, status)
    IN  IF Truthy(workflow_id)
        THEN LET g == GetWorkflow(workflow_id.v, ws, fail)
                 c == Append(g.calls, AmCall("get_runs", 0, ""))
             IN  IF ~g.out.ok
                 THEN Ran(g.calls, Raise("GitHubError",
                                         ListRunsErrorMsg(g.out.msg),
                                         g.out.msg))
                 ELSE IF fail = "get_runs"
                 THEN Ran(c, Raise("GitHubError",
                                   ListRunsErrorMsg(ServerError), ServerError))
                 ELSE ApplySteps(RunsOfWorkflow(g.out.value[1]), steps, fail, c)
        ELSE LET c == <<AmCall("get_workflow_runs", 0, "")>>
             IN  IF fail = "get_workflow_runs"
                 THEN Ran(c, Raise("GitHubError",
                                   ListRunsErrorMsg(ServerError), ServerError))
                 ELSE ApplySteps(RepoRuns, steps, fail, c)

\* a method whose whole body sits in "except Exception as e: raise
\* GitHubError(f"<prefix>: {e}") from e": lookup, then one call on the result
LookupThenCall(g, op, prefix, fail) ==
    LET c == Append(g.calls, AmCall(op, 0, ""))
    IN  IF ~g.out.ok
        THEN Ran(g.calls, Raise("GitHubError", prefix \o g.out.msg, g.out.msg))
        ELSE IF fail = op
        THEN Ran(c, Raise("GitHubError", prefix \o ServerError, ServerError))
        ELSE Ran(c, Ok(<<>>))

\* trigger_workflow(workflow_id, ref, inputs)
TriggerWorkflow(workflow_id, ws, fail) ==
    LookupThenCall(GetWorkflow(workflow_id, ws, fail), "create_dispatch",
                   <<"Error", "triggering", "workflow:">>, fail)

\* cancel_workflow_run(run_id)
CancelWorkflowRun(run_id, fail) ==
    LookupThenCall(GetWorkflowRun(run_id, fail), "cancel",
                   <<"Error", "cancelling", "workflow", "run:">>, fail)

\* get_workflow_run_logs(run_id)
GetWorkflowRunLogs(run_id, fail) ==
    LookupThenCall(GetWorkflowRun(run_id, fail), "download_logs",
                   <<"Error", "getting", "workflow", "run", "logs:">>, fail)

NoFilters == [branch |-> NoneValue, event |-> NoneValue, status |-> NoneValue]

AmIn(workflow_id, run_id, filters, ws, fail) ==
    [workflow_id |-> workflow_id, run_id |-> run_id, filters |-> filters,
     ws |-> ws, fail |-> fail]

\* one call of a method of the manager: it runs to its return or raise
AmFinish(op, in, r) ==
    /\ am_op = "none"
    /\ am_op' = op
    /\ am_in' = in
    /\ am_calls' = r.calls
    /\ am_out' = r.out

get_workflow(workflow_id, ws, fail) ==
    AmFinish("get_workflow", AmIn(Some(workflow_id), 0, NoFilters, ws, fail),
             GetWorkflow(workflow_id, ws, fail))

get_workflow_run(run_id, fail) ==
    AmFinish("get_workflow_run", AmIn(NoneSeq, run_id, NoFilters, <<>>, fail),
             GetWorkflowRun(run_id, fail))

list_workflow_runs(workflow_id, branch, event, status, ws, fail) ==
    AmFinish("list_workflow_runs",
             AmIn(workflow_id, 0,
                  [branch |-> branch, event |-> event, status |-> status],
                  ws, fail),
             ListWorkflowRuns(workflow_id, branch, event, status, ws, fail))

trigger_workflow(workflow_id, ws, fail) ==
    AmFinish("trigger_workflow",
             AmIn(Some(workflow_id), 0, NoFilters, ws, fail),
             TriggerWorkflow(workflow_id, ws, fail))

cancel_workflow_run(run_id, fail) ==
    AmFinish("cancel_workflow_run",
             AmIn(NoneSeq, run_id, NoFilters, <<>>, fail),
             CancelWorkflowRun(run_id, fail))

get_workflow_run_logs(run_id, fail) ==
    AmFinish("get_workflow_run_logs",
             AmIn(NoneSeq, run_id, NoFilters, <<>>, fail),
             GetWorkflowRunLogs(run_id, fail))

Optional(S) == {NoneValue} \cup {Some(x) : x \in S}
OptionalSeq(S) == {NoneSeq} \cup {Some(x) : x \in S}

ActionInit ==
    /\ am_op = "none"
    /\ am_in = AmIn(NoneSeq, 0, NoFilters, <<>>, NoFailure)
    /\ am_calls = <<>>
    /\ am_out = Ok(<<>>)

\* the caller has taken the result; the manager keeps no state of the call
AmReturn ==
    /\ am_op # "none"
    /\ am_op' = "none"
    /\ am_in' = AmIn(NoneSeq, 0, NoFilters, <<>>, NoFailure)
    /\ am_calls' = <<>>
    /\ am_out' = Ok(<<>>)

\* ------------------------------------------------------------------
\* IssueManager, PullRequestManager, CommitManager, SearchManager and
\* RepositoryManager.search_repositories: entities and their lists
\* ------------------------------------------------------------------

VARIABLES
    em_op,      \* the method called last
    em_in,      \* its arguments and the remote state it ran against
    em_calls,   \* the remote calls it made, in order
    em_out,     \* what it returned or raised
    em_entity   \* the fields of the remote entity after the call

entityVars == <<em_op, em_in, em_calls, em_out, em_entity>>

\* Argument values are Python literals, written out: "", "[]", "0", "False"
\* are the values that count as false in "x if x else d".
Falsy(x) == x.tag = "None" \/ x.v \in {"", "[]", "0", "False"}

NoneInt == [tag |-> "None", v |-> 0]
OptionalInt(S) == {NoneInt} \cup {Some(n) : n \in S}

\* IssueConfig(title, body, assignees, labels, milestone, state)
IssueKwargs ==
    [title : {Some("T")},
     body : Optional({"", "B"}),
     assignees : Optional({"[u]"}),
     labels : Optional({"[]", "[bug]"}),
     milestone : Optional({"0", "1"}),
     state : Optional({"closed"})]

\* PullRequestConfig(title, body, head, base, draft, maintainer_can_modify)
PullKwargs ==
    [title : {Some("T")},
     body : Optional({"B"}),
     head : Optional({"h"}),
     base : Optional({"b"}),
     draft : Optional({"True"}),
     maintainer_can_modify : Optional({"True", "False"})]

\* the dataclass defaults: every optional field of IssueConfig is None
IssueConfig(kwargs) == kwargs

\* draft: bool = False, maintainer_can_modify: bool = True
PullRequestConfig(kwargs) ==
    [f \in DOMAIN kwargs |->
        IF kwargs[f] # NoneValue THEN kwargs[f]
        ELSE IF f = "draft" THEN Some("False")
        ELSE IF f = "maintainer_can_modify" THEN Some("True")
        ELSE NoneValue]

\* the fields update_issue / update_pull_request test, in that order
IssueEditFields ==
    <<"title", "body", "assignees", "labels", "milestone", "state">>
PullEditFields == <<"title", "body", "base", "maintainer_can_modify">>

\* the entity as the remote holds it before the call
IssueOnRemote ==
    [title |-> "t0", body |-> "b0", assignees |-> "[]", labels |-> "[]",
     milestone |-> "0", state |-> "open"]
PullOnRemote ==
    [title |-> "t0", body |-> "b0", head |-> "h0", base |-> "b0",
     draft |-> "False", maintainer_can_modify |-> "False"]
NoEntity == [title |-> ""]

\* identifiers asked for, and the ones the remote has
Numbers == {1, 2}
ExistingNumbers == {1}

EmCall(op, args) == [op |-> op, args |-> args]
NoArgs == [none |-> NoneValue]
NumberArg(n) == [number |-> Some(ToString(n))]

EmRan(log, out, entity) == [calls |-> log, out |-> out, entity |-> entity]

\* repository.get_issue(number) / get_pull(number) / get_commit(sha): the
\* manager returns the call's result and lets its exception pass
RemoteGet(op, number, fail) ==
    IF fail = op THEN Raise("GithubException", ServerError, <<>>)
    ELSE IF number \in ExistingNumbers THEN Ok(<<number>>)
    ELSE Raise("UnknownObjectException", UnknownObject, <<>>)

\* one entity.edit(field=value) for every listed field that is not None
RECURSIVE Edits(_, _)
Edits(cfg, fields) ==
    IF fields = <<>> THEN <<>>
    ELSE LET f == Head(fields)
         IN  (IF cfg[f] # NoneValue
              THEN <<EmCall("edit", [n \in {f} |-> cfg[f]])>>
              ELSE <<>>)
             \o Edits(cfg, Tail(fields))

\* the entity after the edits
RECURSIVE Edited(_, _)
Edited(entity, edits) ==
    IF edits = <<>> THEN entity
    ELSE LET a == Head(edits).args
             f == CHOOSE n \in DOMAIN a : TRUE
         IN  Edited([entity EXCEPT ![f] = a[f].v], Tail(edits))

\* update_issue / update_pull_request: get, then the edits; no try block
Update(getop, number, cfg, fields, entity, fail) ==
    LET g == RemoteGet(getop, number, fail)
        c == <<EmCall(getop, NumberArg(number))>>
        edits == Edits(cfg, fields)
    IN  IF ~g.ok THEN EmRan(c, g, entity)
        ELSE IF fail = "edit" /\ edits # <<>>
        THEN EmRan(Append(c, Head(edits)),
                   Raise("GithubException", ServerError, <<>>), entity)
        ELSE EmRan(c \o edits, g, Edited(entity, edits))

\* "x if x else d"
or_default_unchanged(x, d) == x

or_default(x, d) == IF Falsy(x) THEN d ELSE x

\* create_issue(config)
CreateIssue(cfg, fail) ==
    LET c == <<EmCall("create_issue",
                 [title |-> cfg.title,
                  body |-> or_default(cfg.body, Some("")),
                  labels |-> or_default(cfg.labels, Some("[]")),
                  assignees |-> or_default(cfg.assignees, Some("[]")),
                  milestone |-> or_default(cfg.milestone, NotSetValue)])>>
    IN  IF fail = "create_issue"
        THEN EmRan(c, Raise("GithubException", ServerError, <<>>), NoEntity)
        ELSE EmRan(c, Ok(<<1>>), NoEntity)

\* "x if x is not None else NotSet"
not_set_if_none(x) == IF x = NoneValue THEN NotSetValue ELSE x

\* the items the remote lists, and a page of them as the remote cuts it
MaxItems == 2
ItemLists == {[i \in 1..n |-> i] : n \in 0..MaxItems}
RemotePageSize == 1
Min(a, b) == IF a < b THEN a ELSE b
Max(a, b) == IF a < b THEN b ELSE a
RemotePage(items, p) ==
    SubSeq(items, Max(p, 0) * RemotePageSize + 1,
           Min((Max(p, 0) + 1) * RemotePageSize, Len(items)))

\* items[:n]
SliceTo(items, n) ==
    IF n >= 0 THEN SubSeq(items, 1, Min(n, Len(items)))
    ELSE SubSeq(items, 1, Max(Len(items) + n, 0))

MaxPage == 1
MaxPerPage == 3
Pages == OptionalInt(0..MaxPage)
PerPages == OptionalInt(0..MaxPerPage)

\* the remote list call, then list(...) of its result
ListAll(op, args, items, fail) ==
    LET c == <<EmCall(op, args)>>
    IN  IF fail = op
        THEN EmRan(c, Raise("GithubException", ServerError, <<>>), NoEntity)
        ELSE EmRan(c, Ok(items), NoEntity)

\* "if page ...: get_page(page) elif per_page ...: list(x)[:per_page]
\*  else: list(x)"
paginate_per_page_first(items, page, per_page) ==
    IF per_page # NoneInt
    THEN [calls |-> <<>>, value |-> SliceTo(items, per_page.v)]
    ELSE IF page # NoneInt
    THEN [calls |-> <<EmCall("get_page", NumberArg(page.v))>>,
          value |-> RemotePage(items, page.v)]
    ELSE [calls |-> <<>>, value |-> items]

paginate(items, page, per_page) ==
    IF page # NoneInt
    THEN [calls |-> <<EmCall("get_page", NumberArg(page.v))>>,
          value |-> RemotePage(items, page.v)]
    ELSE IF per_page # NoneInt
    THEN [calls |-> <<>>, value |-> SliceTo(items, per_page.v)]
    ELSE [calls |-> <<>>, value |-> items]

\* the remote list call, then the pagination of its result
ListPaged(op, args, items, page, per_page, fail) ==
    LET c == <<EmCall(op, args)>>
        p == paginate(items, page, per_page)
    IN  IF fail = op
        THEN EmRan(c, Raise("GithubException", ServerError, <<>>), NoEntity)
        ELSE IF fail = "get_page" /\ p.calls # <<>>
        THEN EmRan(c \o p.calls, Raise("GithubException", ServerError, <<>>),
                   NoEntity)
        ELSE EmRan(c \o p.calls, Ok(p.value), NoEntity)

\* list_issues(state, labels, assignee, milestone)
ListIssuesKwargs ==
    [labels : Optional({"[bug]"}), assignee : Optional({"u"}),
     milestone : Optional({"1"})]
ListIssues(kwargs, items, fail) ==
    ListAll("get_issues",
            [state |-> Some("open"),
             labels |-> not_set_if_none(kwargs.labels),
             assignee |-> not_set_if_none(kwargs.assignee),
             milestone |-> not_set_if_none(kwargs.milestone)],
            items, fail)

\* list_pull_requests(state, head, base, sort, direction)
ListPullsKwargs ==
    [head : Optional({"h"}), base : Optional({"b"})]
ListPullRequests(kwargs, items, fail) ==
    ListAll("get_pulls",
            [state |-> Some("open"),
             head |-> not_set_if_none(kwargs.head),
             base |-> not_set_if_none(kwargs.base),
             sort |-> Some("created"),
             direction |-> Some("desc")],
            items, fail)

\* SearchConfig(query, sort=None, order="desc", per_page=30, page=1) and
\* search_issues(config) / search_pulls(config)
SearchKwargs == [sort : Optional({"created"})]
SearchEntities(op, kwargs, items, fail) ==
    ListAll(op,
            [sort |-> kwargs.sort,
             direction |-> Some("desc"),
             per_page |-> Some("30"),
             page |-> Some("1")],
            items, fail)

\* list_commits(config)
ListCommitsKwargs ==
    [branch : Optional({"main"}), path : Optional({"a.txt"})]
ListCommits(kwargs, items, page, per_page, fail) ==
    ListPaged("get_commits",
              [sha |-> not_set_if_none(kwargs.branch),
               path |-> not_set_if_none(kwargs.path)],
              items, page, per_page, fail)

\* SearchRepositoryConfig: page >= 1, 1 <= per_page <= 100
SearchRepositoryConfigValid(page, per_page) ==
    /\ page # NoneInt => page.v >= 1
    /\ per_page # NoneInt => per_page.v >= 1 /\ per_page.v <= 100

\* search_repositories(query, sort, order, page, per_page)
SearchReposKwargs ==
    [sort : Optional({"stars"}), order : Optional({"asc"})]
SearchRepositories(kwargs, items, page, per_page, fail) ==
    IF ~SearchRepositoryConfigValid(page, per_page)
    THEN EmRan(<<>>, Raise("ValidationError", <<"validation", "error">>, <<>>),
               NoEntity)
    ELSE ListPaged("search_repositories",
                   [query |-> Some("q"),
                    sort |-> not_set_if_none(kwargs.sort),
                    order |-> not_set_if_none(kwargs.order)],
                   items, page, per_page, fail)

EmIn(number, kwargs, items, page, per_page, fail) ==
    [number |-> number, kwargs |-> kwargs, items |-> items, page |-> page,
     per_page |-> per_page, fail |-> fail]
NoEmIn == EmIn(0, NoArgs, <<>>, NoneInt, NoneInt, NoFailure)

\* one call of a method of a manager: it runs to its return or raise
EmFinish(op, in, r) ==
    /\ em_op = "none"
    /\ em_op' = op
    /\ em_in' = in
    /\ em_calls' = r.calls
    /\ em_out' = r.out
    /\ em_entity' = r.entity

get_issue(number, fail) ==
    EmFinish("get_issue", EmIn(number, NoArgs, <<>>, NoneInt, NoneInt, fail),
             EmRan(<<EmCall("get_issue", NumberArg(number))>>,
                   RemoteGet("get_issue", number, fail), NoEntity))

get_pull_request(number, fail) ==
    EmFinish("get_pull_request",
             EmIn(number, NoArgs, <<>>, NoneInt, NoneInt, fail),
             EmRan(<<EmCall("get_pull", NumberArg(number))>>,
                   RemoteGet("get_pull", number, fail), NoEntity))

get_commit(sha, fail) ==
    EmFinish("get_commit", EmIn(sha, NoArgs, <<>>, NoneInt, NoneInt, fail),
             EmRan(<<EmCall("get_commit", NumberArg(sha))>>,
                   RemoteGet("get_commit", sha, fail), NoEntity))

update_issue(number, kwargs, fail) ==
    EmFinish("update_issue",
             EmIn(number, kwargs, <<>>, NoneInt, NoneInt, fail),
             Update("get_issue", number, IssueConfig(kwargs), IssueEditFields,
                    IssueOnRemote, fail))

update_pull_request(number, kwargs, fail) ==
    EmFinish("update_pull_request",
             EmIn(number, kwargs, <<>>, NoneInt, NoneInt, fail),
             Update("get_pull", number, PullRequestConfig(kwargs),
                    PullEditFields, PullOnRemote, fail))

create_issue(kwargs, fail) ==
    EmFinish("create_issue", EmIn(0, kwargs, <<>>, NoneInt, NoneInt, fail),
             CreateIssue(IssueConfig(kwargs), fail))

list_issues(kwargs, items, fail) ==
    EmFinish("list_issues", EmIn(0, kwargs, items, NoneInt, NoneInt, fail),
             ListIssues(kwargs, items, fail))

list_pull_requests(kwargs, items, fail) ==
    EmFinish("list_pull_requests",
             EmIn(0, kwargs, items, NoneInt, NoneInt, fail),
             ListPullRequests(kwargs, items, fail))

search_issues(kwargs, items, fail) ==
    EmFinish("search_issues", EmIn(0, kwargs, items, NoneInt, NoneInt, fail),
             SearchEntities("get_issues", kwargs, items, fail))

search_pulls(kwargs, items, fail) ==
    EmFinish("search_pulls", EmIn(0, kwargs, items, NoneInt, NoneInt, fail),
             SearchEntities("get_pulls", kwargs, items, fail))

list_commits(kwargs, items, page, per_page, fail) ==
    EmFinish("list_commits", EmIn(0, kwargs, items, page, per_page, fail),
             ListCommits(kwargs, items, page, per_page, fail))

search_repositories(kwargs, items, page, per_page, fail) ==
    EmFinish("search_repositories",
             EmIn(0, kwargs, items, page, per_page, fail),
             SearchRepositories(kwargs, items, page, per_page, fail))

EntityInit ==
    /\ em_op = "none"
    /\ em_in = NoEmIn
    /\ em_calls = <<>>
    /\ em_out = Ok(<<>>)
    /\ em_entity = NoEntity

\* the caller has taken the result; the managers keep no state of the call
EmReturn ==
    /\ em_op # "none"
    /\ em_op' = "none"
    /\ em_in' = NoEmIn
    /\ em_calls' = <<>>
    /\ em_out' = Ok(<<>>)
    /\ em_entity' = NoEntity

\* ------------------------------------------------------------------
\* FileManager.create_or_update_file and FileManager.create_file
\* ------------------------------------------------------------------

VARIABLES
    fo_op,      \* the method called last
    fo_in,      \* its arguments and the remote state it ran against
    fo_calls,   \* the remote calls it made, in order, with their outcome
    fo_out      \* what it returned or raised

fileOpVars == <<fo_op, fo_in, fo_calls, fo_out>>

\* CreateOrUpdateFileConfig.sha: None, the empty string or a blob SHA
ShaArgs == Optional({"", "3b18e5"})

\* what get_contents finds at the path: a file, nothing (404), or a value
\* that counts as false
ExistingFiles == {"file", "absent", "empty"}
ExistingSha == "9af1c2"

\* the remote calls that fail with a server error during the call
FileFailures == SUBSET {"get_contents", "update_file", "create_file"}

FoCall(op, sha, branch, ok) ==
    [op |-> op, sha |-> sha, branch |-> branch, ok |-> ok]

\* the branch argument of the call
BranchArgs == Optional({"", "main"})

\* "if config.sha:" chooses the remote write
write_op_always_update(sha) == "update_file"

write_op(sha) == IF Falsy(sha) THEN "create_file" ELSE "update_file"

\* create_or_update_file(config): one remote write, no try block
CreateOrUpdateFile(sha, branch, fails) ==
    LET op == write_op(sha)
        arg == IF op = "update_file" THEN sha ELSE NotSetValue
        c == FoCall(op, arg, or_default(branch, NotSetValue), op \notin fails)
    IN  IF op \in fails
        THEN Ran(<<c>>, Raise("GithubException", ServerError, <<>>))
        ELSE Ran(<<c>>, Ok(<<op>>))

\* a remote write of create_file, and what it leaves the method with
CreateFileWrite(log, op, sha, branch, fails) ==
    LET c == FoCall(op, sha, not_set_if_none(branch), op \notin fails)
    IN  IF op \in fails
        THEN Ran(Append(log, c), Raise("GithubException", ServerError, <<>>))
        ELSE Ran(Append(log, c), Ok(<<op>>))

\* the except clause of create_file: create the file, whatever was raised
create_file_except(log, branch, fails) ==
    CreateFileWrite(log, "create_file", NotSetValue, branch, fails)

\* create_file(path, content, message, branch, ...): look the file up,
\* update it if it is there and create it otherwise; a bare except around
\* all of it
CreateFile(existing, branch, fails) ==
    LET found == existing # "absent" /\ "get_contents" \notin fails
        c1 == <<FoCall("get_contents", NotSetValue,
                       or_default(branch, NotSetValue), found)>>
        w == IF existing = "file"
             THEN CreateFileWrite(c1, "update_file", Some(ExistingSha),
                                  branch, fails)
             ELSE CreateFileWrite(c1, "create_file", NotSetValue, branch,
                                  fails)
    IN  IF ~found THEN create_file_except(c1, branch, fails)
        ELSE IF ~w.out.ok THEN create_file_except(w.calls, branch, fails)
        ELSE w

FoIn(sha, branch, existing, fails) ==
    [sha |-> sha, branch |-> branch, existing |-> existing, fails |-> fails]
NoFoIn == FoIn(NoneValue, NoneValue, "absent", {})

\* one call of a method: it runs to its return or raise
FoFinish(op, in, r) ==
    /\ fo_op = "none"
    /\ fo_op' = op
    /\ fo_in' = in
    /\ fo_calls' = r.calls
    /\ fo_out' = r.out

create_or_update_file(sha, branch, fails) ==
    FoFinish("create_or_update_file", FoIn(sha, branch, "absent", fails),
             CreateOrUpdateFile(sha, branch, fails))

create_file(existing, branch, fails) ==
    FoFinish("create_file", FoIn(NoneValue, branch, existing, fails),
             CreateFile(existing, branch, fails))

FileOpInit ==
    /\ fo_op = "none"
    /\ fo_in = NoFoIn
    /\ fo_calls = <<>>
    /\ fo_out = Ok(<<>>)

\* the caller has taken the result; the manager keeps no state of the call
FoReturn ==
    /\ fo_op # "none"
    /\ fo_op' = "none"
    /\ fo_in' = NoFoIn
    /\ fo_calls' = <<>>
    /\ fo_out' = Ok(<<>>)

\* ------------------------------------------------------------------
\* common/utils.py: name validation, content encoding, datetimes
\* ------------------------------------------------------------------

VARIABLES
    ut_op,      \* the function called last
    ut_arg,     \* the argument of the first call of the round trip
    ut_out      \* what the last call returned

utilVars == <<ut_op, ut_arg, ut_out>>

\* a string is the sequence of its characters; LF is the newline and SOH
\* another control character (\001)
LF == "LF"
SOH == "SOH"
ControlChars == {LF, SOH}

\* the characters names are drawn from, and the longest drawn name
NameChars == {"a", ".", "/", "@", "{", " ", SOH, LF}
MaxNameLen == 3

\* names of the test suite and of the documentation
SampleNames ==
    { <<"m", "a", "i", "n">>,
      <<"f", "e", "a", "t", "u", "r", "e", "/", "n", "e", "w", "-",
        "f", "e", "a", "t", "u", "r", "e">>,
      <<"x", ".", "l", "o", "c", "k">>,
      <<"b", "r", "a", "n", "c", "h", "@", "{", "1", "}">>,
      <<"p", "a", "t", "h", "/", ".", "/", "f", "i", "l", "e">>,
      <<"a", "/", "b", "~", "c">> }

Names == {<<>>} \cup SeqsUpTo(NameChars, MaxNameLen) \cup SampleNames

\* s[i..j] as a sequence
Slice(s, i, j) == [k \in 1..(j - i + 1) |-> s[i + k - 1]]

\* the substring pat occurs in s at position i
OccursAt(s, pat, i) ==
    /\ i >= 1
    /\ i + Len(pat) - 1 <= Len(s)
    /\ Slice(s, i, i + Len(pat) - 1) = pat

\* "$" of the re module: the end of the string, or just before a newline
\* that ends the string
MatchEnds(s) ==
    {Len(s)} \cup
        (IF s # <<>> /\ s[Len(s)] = LF THEN {Len(s) - 1} ELSE {})

\* "(?!.*\.\.)" at the start of the string: "." does not match a newline,
\* so only two dots with no newline before them are seen
LookaheadSeesDotDot(s) ==
    \E i \in 1..Len(s) :
        /\ OccursAt(s, <<".", ".">>, i)
        /\ \A k \in 1..(i - 1) : s[k] # LF

\* the characters the class "[^\000-\037\177 ~^:?*[\\]" leaves out
BranchNameExcluded ==
    ControlChars \cup {" ", "~", "^", ":", "?", "*", "[", "\\"}

\* validate_branch_name(name): re.match of
\* ^(?!\.|\/)(?!.*\.\.)[^\000-\037\177 ~^:?*[\\]+[^.](?<!\.lock)$
ValidateBranchName(name) ==
    /\ ~OccursAt(name, <<".">>, 1)
    /\ ~OccursAt(name, <<"/">>, 1)
    /\ ~LookaheadSeesDotDot(name)
    /\ \E e \in MatchEnds(name) :
          /\ e >= 2
          /\ \A k \in 1..(e - 1) : name[k] \notin BranchNameExcluded
          /\ name[e] # "."
          /\ ~OccursAt(name, <<".", "l", "o", "c", "k">>, e - 4)

\* validate_file_path(path): re.match of ^(?!\/)(?!.*\.\.)[^\000-\037\177]+$
ValidateFilePath(path) ==
    /\ ~OccursAt(path, <<"/">>, 1)
    /\ ~LookaheadSeesDotDot(path)
    /\ \E e \in MatchEnds(path) :
          /\ e >= 1
          /\ \A k \in 1..e : path[k] \notin ControlChars

\* a text is the sequence of its code points; the code points drawn
\* take one, two, three and four bytes in UTF-8
CodePoints == {65, 127, 128, 233, 2048, 8364, 65536, 128512}
MaxContentLen == 2
Contents == {<<>>} \cup SeqsUpTo(CodePoints, MaxContentLen)

\* str.encode("utf-8") of one character
Utf8Char(cp) ==
    IF cp < 128 THEN <<cp>>
    ELSE IF cp < 2048 THEN <<192 + (cp \div 64), 128 + (cp % 64)>>
    ELSE IF cp < 65536
         THEN <<224 + (cp \div 4096), 128 + ((cp \div 64) % 64),
                128 + (cp % 64)>>
         ELSE <<240 + (cp \div 262144), 128 + ((cp \div 4096) % 64),
                128 + ((cp \div 64) % 64), 128 + (cp % 64)>>

\* content.encode("utf-8")
RECURSIVE Utf8Encode(_)
Utf8Encode(content) ==
    IF content = <<>> THEN <<>>
    ELSE Utf8Char(Head(content)) \o Utf8Encode(Tail(content))

\* the result of a decoding step: the value, or the error raised
Decoded(v) == [ok |-> TRUE, v |-> v]
DecodeError == [ok |-> FALSE, v |-> <<>>]

IsContinuation(b) == b >= 128 /\ b < 192

\* the length of the UTF-8 sequence a lead byte opens (0: not a lead byte)
Utf8Length(b) ==
    IF b < 128 THEN 1
    ELSE IF b >= 194 /\ b < 224 THEN 2
    ELSE IF b >= 224 /\ b < 240 THEN 3
    ELSE IF b >= 240 /\ b < 245 THEN 4
    ELSE 0

\* the code point of a complete sequence of n bytes
Utf8CodePoint(bytes, n) ==
    IF n = 1 THEN bytes[1]
    ELSE IF n = 2 THEN (bytes[1] - 192) * 64 + (bytes[2] - 128)
    ELSE IF n = 3 THEN (bytes[1] - 224) * 4096 + (bytes[2] - 128) * 64
                          + (bytes[3] - 128)
    ELSE (bytes[1] - 240) * 262144 + (bytes[2] - 128) * 4096
            + (bytes[3] - 128) * 64 + (bytes[4] - 128)

\* the smallest code point a sequence of n bytes may stand for
Utf8Smallest(n) ==
    IF n = 1 THEN 0 ELSE IF n = 2 THEN 128 ELSE IF n = 3 THEN 2048 ELSE 65536

\* bytes.decode("utf-8"), strict
RECURSIVE Utf8Decode(_)
Utf8Decode(bytes) ==
    IF bytes = <<>> THEN Decoded(<<>>)
    ELSE LET n == Utf8Length(bytes[1]) IN
         IF n = 0 \/ Len(bytes) < n
               \/ \E k \in 2..n : ~IsContinuation(bytes[k])
         THEN DecodeError
         ELSE LET cp == Utf8CodePoint(bytes, n)
                  rest == Utf8Decode(SubSeq(bytes, n + 1, Len(bytes)))
              IN  IF cp < Utf8Smallest(n) \/ cp > 1114111
                        \/ (cp >= 55296 /\ cp < 57344) \/ ~rest.ok
                  THEN DecodeError
                  ELSE Decoded(<<cp>> \o rest.v)

\* the base64 alphabet, by value
B64Alphabet ==
    <<"A", "B", "C", "D", "E", "F", "G", "H", "I", "J", "K", "L", "M",
      "N", "O", "P", "Q", "R", "S", "T", "U", "V", "W", "X", "Y", "Z",
      "a", "b", "c", "d", "e", "f", "g", "h", "i", "j", "k", "l", "m",
      "n", "o", "p", "q", "r", "s", "t", "u", "v", "w", "x", "y", "z",
      "0", "1", "2", "3", "4", "5", "6", "7", "8", "9", "+", "/">>

B64Char(v) == B64Alphabet[v + 1]
B64Value(c) == CHOOSE v \in 0..63 : B64Alphabet[v + 1] = c
IsB64Char(c) == \E v \in 0..63 : B64Alphabet[v + 1] = c

\* the padding that fills the last group when r bytes are left over
b64_padding_stripped(r) == <<>>

b64_padding(r) == IF r = 1 THEN <<"=", "=">> ELSE <<"=">>

\* b64encode(bytes), as the text its ASCII bytes decode to
RECURSIVE b64encode(_)
b64encode(bytes) ==
    IF bytes = <<>> THEN <<>>
    ELSE IF Len(bytes) = 1
         THEN <<B64Char(bytes[1] \div 4), B64Char((bytes[1] % 4) * 16)>>
                 \o b64_padding(1)
    ELSE IF Len(bytes) = 2
         THEN <<B64Char(bytes[1] \div 4),
                B64Char((bytes[1] % 4) * 16 + (bytes[2] \div 16)),
                B64Char((bytes[2] % 16) * 4)>> \o b64_padding(2)
    ELSE <<B64Char(bytes[1] \div 4),
           B64Char((bytes[1] % 4) * 16 + (bytes[2] \div 16)),
           B64Char((bytes[2] % 16) * 4 + (bytes[3] \div 64)),
           B64Char(bytes[3] % 64)>>
            \o b64encode(SubSeq(bytes, 4, Len(bytes)))

\* the bytes of one group of four base64 characters
B64Group(g) ==
    LET a == B64Value(g[1])
        b == B64Value(g[2])
        c == IF g[3] = "=" THEN 0 ELSE B64Value(g[3])
        d == IF g[4] = "=" THEN 0 ELSE B64Value(g[4])
        all == <<a * 4 + (b \div 16), (b % 16) * 16 + (c \div 4),
                 (c % 4) * 64 + d>>
    IN  IF g[3] = "=" THEN SubSeq(all, 1, 1)
        ELSE IF g[4] = "=" THEN SubSeq(all, 1, 2)
        ELSE all

\* the bytes of a base64 text made of alphabet characters and padding:
\* groups of four characters, padding only at the end; a text that is not
\* a whole number of groups is "Incorrect padding"
RECURSIVE B64Groups(_)
B64Groups(text) ==
    IF text = <<>> THEN Decoded(<<>>)
    ELSE IF Len(text) < 4 THEN DecodeError
    ELSE LET g == SubSeq(text, 1, 4)
             last == Len(text) = 4
             rest == B64Groups(SubSeq(text, 5, Len(text)))
         IN  IF g[1] = "=" \/ g[2] = "="
                   \/ (g[3] = "=" /\ g[4] # "=")
                   \/ (g[4] = "=" /\ ~last)
                   \/ ~rest.ok
             THEN DecodeError
             ELSE Decoded(B64Group(g) \o rest.v)

\* b64decode(text): characters outside the alphabet are discarded first
b64decode(text) ==
    B64Groups(SelectSeq(text, LAMBDA c : c = "=" \/ IsB64Char(c)))

\* encode_content(content): b64encode(content.encode("utf-8")).decode("utf-8")
EncodeContent(content) == b64encode(Utf8Encode(content))

\* decode_content(content): b64decode(content.encode("utf-8")).decode("utf-8")
DecodeContent(text) ==
    LET bytes == b64decode(text)
    IN  IF bytes.ok THEN Utf8Decode(bytes.v) ELSE DecodeError

\* an aware datetime: its fields and the offset of its timezone from UTC,
\* in seconds
Datetime(year, month, day, hour, minute, second, microsecond, offset) ==
    [year |-> year, month |-> month, day |-> day, hour |-> hour,
     minute |-> minute, second |-> second, microsecond |-> microsecond,
     offset |-> offset]

\* the days of a month of the proleptic Gregorian calendar
IsLeapYear(year) ==
    year % 4 = 0 /\ (year % 100 # 0 \/ year % 400 = 0)

DaysInMonth(year, month) ==
    IF month = 2 THEN (IF IsLeapYear(year) THEN 29 ELSE 28)
    ELSE IF month \in {4, 6, 9, 11} THEN 30 ELSE 31

\* the datetimes drawn: first and last values of each field, a leap day,
\* offsets east and west of UTC, with half hours and with seconds
Datetimes ==
    {dt \in [year : {1, 2024, 9999}, month : {2, 12}, day : {1, 29},
             hour : {0, 23}, minute : {0, 59}, second : {0, 59},
             microsecond : {0, 1, 999999},
             offset : {0, 7200, 0 - 19800, 30, 50400}] :
        dt.day <= DaysInMonth(dt.year, dt.month)}

\* datetime.now(timezone.utc): some instant, at offset zero
UtcNows == {dt \in Datetimes : dt.offset = 0 /\ dt.year = 2024}

DigitChars == <<"0", "1", "2", "3", "4", "5", "6", "7", "8", "9">>
IsDigitChar(c) == \E d \in 0..9 : DigitChars[d + 1] = c
DigitOf(c) == CHOOSE d \in 0..9 : DigitChars[d + 1] = c

\* "%0<width>d" % n
RECURSIVE ZeroPadded(_, _)
ZeroPadded(n, width) ==
    IF width = 0 THEN <<>>
    ELSE ZeroPadded(n \div 10, width - 1) \o <<DigitChars[(n % 10) + 1]>>

\* int(s) of a string of decimal digits
RECURSIVE Number(_)
Number(s) ==
    IF s = <<>> THEN 0
    ELSE 10 * Number(SubSeq(s, 1, Len(s) - 1)) + DigitOf(s[Len(s)])

\* the fraction of isoformat(): left out when the microsecond is zero
iso_fraction_left_out(microsecond) == <<>>

iso_fraction(microsecond) ==
    IF microsecond = 0 THEN <<>> ELSE <<".">> \o ZeroPadded(microsecond, 6)

\* the UTC offset of isoformat(): sign, hours, minutes, and the seconds
\* when there are any
IsoOffset(offset) ==
    LET a == IF offset < 0 THEN 0 - offset ELSE offset IN
    <<IF offset < 0 THEN "-" ELSE "+">>
        \o ZeroPadded(a \div 3600, 2) \o <<":">>
        \o ZeroPadded((a % 3600) \div 60, 2)
        \o (IF a % 60 = 0 THEN <<>> ELSE <<":">> \o ZeroPadded(a % 60, 2))

\* dt.isoformat()
isoformat(dt) ==
    ZeroPadded(dt.year, 4) \o <<"-">> \o ZeroPadded(dt.month, 2) \o <<"-">>
        \o ZeroPadded(dt.day, 2) \o <<"T">>
        \o ZeroPadded(dt.hour, 2) \o <<":">> \o ZeroPadded(dt.minute, 2)
        \o <<":">> \o ZeroPadded(dt.second, 2)
        \o iso_fraction(dt.microsecond) \o IsoOffset(dt.offset)

\* format_datetime(dt)
FormatDatetime(dt) == isoformat(dt)

\* dt_str.replace("Z", "+00:00")
RECURSIVE ReplaceZ(_)
ReplaceZ(s) ==
    IF s = <<>> THEN <<>>
    ELSE (IF Head(s) = "Z" THEN <<"+", "0", "0", ":", "0", "0">>
          ELSE <<Head(s)>>) \o ReplaceZ(Tail(s))

\* the digits after the decimal point, as microseconds
Fraction(digits) ==
    LET six == SubSeq(digits \o <<"0", "0", "0", "0", "0", "0">>, 1, 6)
    IN  Number(six)

AllDigits(s) == \A i \in 1..Len(s) : IsDigitChar(s[i])

\* datetime.fromisoformat(s) for date, "T", time with seconds, optional
\* fraction, and a UTC offset of hours, minutes and optional seconds
fromisoformat(s) ==
    LET n == Len(s)
        signs == {i \in 20..n : s[i] \in {"+", "-"}}
        tzpos == IF signs = {} THEN n + 1
                 ELSE CHOOSE i \in signs : \A j \in signs : i <= j
        frac == IF tzpos > 21 /\ s[20] = "." THEN SubSeq(s, 21, tzpos - 1)
                ELSE <<>>
        tz == SubSeq(s, tzpos + 1, n)
        shaped ==
            /\ n >= 25
            /\ signs # {}
            /\ s[5] = "-" /\ s[8] = "-" /\ s[14] = ":" /\ s[17] = ":"
            /\ AllDigits(SubSeq(s, 1, 4)) /\ AllDigits(SubSeq(s, 6, 7))
            /\ AllDigits(SubSeq(s, 9, 10)) /\ AllDigits(SubSeq(s, 12, 13))
            /\ AllDigits(SubSeq(s, 15, 16)) /\ AllDigits(SubSeq(s, 18, 19))
            /\ tzpos = 20 \/ (s[20] = "." /\ frac # <<>> /\ AllDigits(frac))
            /\ Len(tz) \in {5, 8}
            /\ AllDigits(SubSeq(tz, 1, 2)) /\ tz[3] = ":"
            /\ AllDigits(SubSeq(tz, 4, 5))
            /\ Len(tz) = 8 => tz[6] = ":" /\ AllDigits(SubSeq(tz, 7, 8))
        a == Number(SubSeq(tz, 1, 2)) * 3600 + Number(SubSeq(tz, 4, 5)) * 60
                + (IF Len(tz) = 8 THEN Number(SubSeq(tz, 7, 8)) ELSE 0)
    IN  IF ~shaped THEN DecodeError
        ELSE Decoded(Datetime(Number(SubSeq(s, 1, 4)),
                              Number(SubSeq(s, 6, 7)),
                              Number(SubSeq(s, 9, 10)),
                              Number(SubSeq(s, 12, 13)),
                              Number(SubSeq(s, 15, 16)),
                              Number(SubSeq(s, 18, 19)),
                              Fraction(frac),
                              IF s[tzpos] = "-" THEN 0 - a ELSE a))

\* parse_datetime(dt_str)
ParseDatetime(dt_str) == fromisoformat(ReplaceZ(dt_str))

\* timestamps as the remote service writes them
SampleTimestamps ==
    { <<"2", "0", "2", "4", "-", "0", "1", "-", "0", "1", "T",
        "1", "2", ":", "0", "0", ":", "0", "0", "+", "0", "2", ":", "0", "0">>,
      <<"2", "0", "2", "4", "-", "0", "1", "-", "0", "1", "T",
        "1", "2", ":", "0", "0", ":", "0", "0", "Z">>,
      <<"2", "0", "2", "4", "-", "0", "1", "-", "0", "1", "T",
        "1", "2", ":", "0", "0", ":", "0", "0", ".", "5", "Z">> }

\* days from 1970-01-01 to a date of the proleptic Gregorian calendar
DaysFromCivil(year, month, day) ==
    LET y == IF month <= 2 THEN year - 1 ELSE year
        era == y \div 400
        yoe == y - era * 400
        mp == IF month > 2 THEN month - 3 ELSE month + 9
        doy == ((153 * mp + 2) \div 5) + day - 1
        doe == yoe * 365 + (yoe \div 4) - (yoe \div 100) + doy
    IN  era * 146097 + doe - 719468

\* the instant a datetime denotes: day, second of the day and microsecond
\* in UTC
Instant(dt) ==
    LET secs == dt.hour * 3600 + dt.minute * 60 + dt.second - dt.offset
    IN  <<DaysFromCivil(dt.year, dt.month, dt.day) + (secs \div 86400),
          secs % 86400, dt.microsecond>>

\* one call of a function of the module
UtFinish(op, arg, out) ==
    /\ ut_op = "none"
    /\ ut_op' = op
    /\ ut_arg' = arg
    /\ ut_out' = out

validate_branch_name(name) ==
    UtFinish("validate_branch_name", name, ValidateBranchName(name))

validate_file_path(path) ==
    UtFinish("validate_file_path", path, ValidateFilePath(path))

encode_content(content) ==
    UtFinish("encode_content", content, EncodeContent(content))

\* decode_content of what encode_content returned
decode_content ==
    /\ ut_op = "encode_content"
    /\ ut_op' = "decode_content"
    /\ ut_out' = DecodeContent(ut_out)
    /\ UNCHANGED ut_arg

format_datetime(dt) ==
    UtFinish("format_datetime", dt, FormatDatetime(dt))

\* format_datetime(): dt is None, so the current time in UTC is taken
format_datetime_now ==
    \E now \in UtcNows : UtFinish("format_datetime", now, FormatDatetime(now))

\* parse_datetime of what format_datetime returned
parse_datetime ==
    /\ ut_op = "format_datetime"
    /\ ut_op' = "parse_datetime"
    /\ ut_out' = ParseDatetime(ut_out)
    /\ UNCHANGED ut_arg

\* parse_datetime of a timestamp received from the remote service
parse_timestamp(dt_str) ==
    UtFinish("parse_timestamp", dt_str, ParseDatetime(dt_str))

UtilInit ==
    /\ ut_op = "none"
    /\ ut_arg = <<>>
    /\ ut_out = <<>>

\* the caller has taken the result; the functions keep no state
UtReturn ==
    /\ ut_op # "none"
    /\ ut_op' = "none"
    /\ ut_arg' = <<>>
    /\ ut_out' = <<>>

\* ------------------------------------------------------------------
\* tools/: input schemas of the tools, and BranchManager.protect_branch
\* ------------------------------------------------------------------

VARIABLES
    ti_op,      \* the input class validated, or the method called, last
    ti_in,      \* the value given to it
    ti_out,     \* TRUE when the input validated; the method's outcome
    ti_calls    \* the remote calls the method made

toolVars == <<ti_op, ti_in, ti_out, ti_calls>>

\* [a-f0-9]
LowerHex ==
    {"a", "b", "c", "d", "e", "f",
     "0", "1", "2", "3", "4", "5", "6", "7", "8", "9"}

\* the string of n characters c
Repeat(c, n) == [i \in 1..n |-> c]

\* the SHA strings drawn: runs of a hexadecimal digit of lengths around
\* the limits, ended by another hexadecimal digit, by an upper-case one,
\* by a letter that is no digit, by a newline, or by nothing
ShaRunLengths == {0, 5, 6, 7, 38, 39, 40, 41}
ShaEndings == {<<>>, <<"f">>, <<"0">>, <<"A">>, <<"g">>, <<LF>>}
ShaStrings == {Repeat("a", n) \o t : n \in ShaRunLengths, t \in ShaEndings}

\* COMMIT_SHA_PATTERN = r"^[a-f0-9]{7,40}$"
COMMIT_SHA_PATTERN(s) ==
    /\ Len(s) >= 7
    /\ Len(s) <= 40
    /\ \A i \in 1..Len(s) : s[i] \in LowerHex

\* sha_field(min_length, max_length, pattern=COMMIT_SHA_PATTERN) on a value
sha_field(s, min_length, max_length) ==
    /\ Len(s) >= min_length
    /\ Len(s) <= max_length
    /\ COMMIT_SHA_PATTERN(s)

\* list_field(min_items=1): a list of at least one item; the items are
\* plain strings, the field puts no constraint on them
list_field(items) == Len(items) >= 1

\* GetCommitInput: sha = sha_field(...)
GetCommitInput(sha) == sha_field(sha, 7, 40)

\* the parent lists drawn, and the longest of them
MaxParents == 2
ParentStrings ==
    {Repeat("a", 40), Repeat("a", 7), Repeat("a", 6), <<"H", "E", "A", "D">>}
ParentLists == {<<>>} \cup SeqsUpTo(ParentStrings, MaxParents)

\* CreateCommitInput: tree = sha_field(min_length=40, max_length=40),
\* parents = list_field(...)
CreateCommitInput(tree_sha, parents) ==
    /\ sha_field(tree_sha, 40, 40)
    /\ list_field(parents)

Chars(S) == {<<c>> : c \in S}

LowerLetters ==
    {"a", "b", "c", "d", "e", "f", "g", "h", "i", "j", "k", "l", "m",
     "n", "o", "p", "q", "r", "s", "t", "u", "v", "w", "x", "y", "z"}
UpperLetters ==
    {"A", "B", "C", "D", "E", "F", "G", "H", "I", "J", "K", "L", "M",
     "N", "O", "P", "Q", "R", "S", "T", "U", "V", "W", "X", "Y", "Z"}
DecimalDigits == {"0", "1", "2", "3", "4", "5", "6", "7", "8", "9"}

\* [a-zA-Z0-9-_/]
BranchNameChars ==
    LowerLetters \cup UpperLetters \cup DecimalDigits \cup {"-", "_", "/"}

Feature == <<"f", "e", "a", "t", "u", "r", "e", "/">>
Bugfix == <<"b", "u", "g", "f", "i", "x", "/">>
Release == <<"r", "e", "l", "e", "a", "s", "e", "/">>
Hotfix == <<"h", "o", "t", "f", "i", "x", "/">>
Develop == <<"d", "e", "v", "e", "l", "o", "p">>
Main == <<"m", "a", "i", "n">>
Master == <<"m", "a", "s", "t", "e", "r">>

\* the alternatives of BRANCH_NAME_PATTERN
BranchPrefixes == {Feature, Bugfix, Release, Hotfix}

\* the alternatives of the pattern of DeleteBranchInput.name
DeletePrefixesWithMain == BranchPrefixes \cup {Develop, Main}

DeletePrefixes == BranchPrefixes \cup {Develop}

startswith(s, prefix) ==
    Len(prefix) <= Len(s) /\ SubSeq(s, 1, Len(prefix)) = prefix

\* the branch names drawn: a beginning, then up to MaxRestLen characters
MaxRestLen == 2
NameBeginnings ==
    BranchPrefixes \cup
        {Develop, Main, Master, <<>>, <<"F", "e", "a", "t", "u", "r", "e", "/">>,
         <<"x", "/">> \o Feature, <<"f", "e", "a", "t", "u", "r", "e">>}
NameRests == {<<>>} \cup SeqsUpTo({"a", "/", "!", LF}, MaxRestLen)
BranchInputNames == {b \o r : b \in NameBeginnings, r \in NameRests}

\* BRANCH_NAME_PATTERN = r"^(?:feature/|bugfix/|release/|hotfix/)[a-zA-Z0-9-_/]+$"
BRANCH_NAME_PATTERN(s) ==
    \E p \in BranchPrefixes :
        /\ startswith(s, p)
        /\ Len(s) > Len(p)
        /\ \A i \in (Len(p) + 1)..Len(s) : s[i] \in BranchNameChars

\* r"^(?:feature/|bugfix/|release/|hotfix/|develop).*$": "." matches
\* every character but the newline
DeleteBranchPattern(s) ==
    \E p \in DeletePrefixes :
        /\ startswith(s, p)
        /\ \A i \in (Len(p) + 1)..Len(s) : s[i] # LF

\* CreateBranchInput: name = string_field(pattern=BRANCH_NAME_PATTERN)
CreateBranchInput(name) == Len(name) >= 1 /\ BRANCH_NAME_PATTERN(name)

\* DeleteBranchInput: the pattern of name, then validate_branch_name
DeleteBranchInput(name) ==
    /\ Len(name) >= 1
    /\ DeleteBranchPattern(name)
    /\ name \notin {Main, Master}

\* the review counts drawn: None and the integers around both limits
ReviewCounts == OptionalInt((0 - 1)..8)

\* UpdateBranchProtectionInput.required_approving_review_count:
\* Optional[int] with ge=1, le=6
UpdateBranchProtectionInput(count) ==
    count # NoneInt => count.v >= 1 /\ count.v <= 6

\* "config.required_approving_review_count or 1"
review_count(count) ==
    IF count = NoneInt \/ count.v = 0 THEN 1 ELSE count.v

TiCall(op, arg) == [op |-> op, arg |-> arg]

\* the remote calls of protect_branch that may fail
ProtectFailures == {NoFailure, "get_branch", "edit_protection"}

\* protect_branch(branch, config): get the branch, then edit_protection
\* with the review count of the config, or 1
ProtectBranch(count, fail) ==
    IF fail = "get_branch"
    THEN Ran(<<TiCall("get_branch", 0)>>,
             Raise("GithubException", ServerError, <<>>))
    ELSE LET log == <<TiCall("get_branch", 0),
                      TiCall("edit_protection", review_count(count))>>
         IN  IF fail = "edit_protection"
             THEN Ran(log, Raise("GithubException", ServerError, <<>>))
             ELSE Ran(log, Ok(<<"protection">>))

\* one validation of a tool input
TiValidate(op, in, accepted) ==
    /\ ti_op = "none"
    /\ ti_op' = op
    /\ ti_in' = in
    /\ ti_out' = accepted
    /\ ti_calls' = <<>>

get_commit_input(sha) ==
    TiValidate("GetCommitInput", [sha |-> sha], GetCommitInput(sha))

create_commit_input(tree_sha, parents) ==
    TiValidate("CreateCommitInput", [tree |-> tree_sha, parents |-> parents],
               CreateCommitInput(tree_sha, parents))

create_branch_input(name) ==
    TiValidate("CreateBranchInput", [name |-> name], CreateBranchInput(name))

delete_branch_input(name) ==
    TiValidate("DeleteBranchInput", [name |-> name], DeleteBranchInput(name))

update_branch_protection_input(count) ==
    TiValidate("UpdateBranchProtectionInput", [count |-> count],
               UpdateBranchProtectionInput(count))

protect_branch(count, fail) ==
    /\ ti_op = "none"
    /\ ti_op' = "protect_branch"
    /\ ti_in' = [count |-> count]
    /\ ti_out' = ProtectBranch(count, fail).out
    /\ ti_calls' = ProtectBranch(count, fail).calls

ToolInit ==
    /\ ti_op = "none"
    /\ ti_in = <<>>
    /\ ti_out = FALSE
    /\ ti_calls = <<>>

\* the caller has taken the result; nothing is kept of a call
TiReturn ==
    /\ ti_op # "none"
    /\ ti_op' = "none"
    /\ ti_in' = <<>>
    /\ ti_out' = FALSE
    /\ ti_calls' = <<>>

vars == <<pushVars, branchVars, authVars, createVars, actionVars, entityVars, fileOpVars, utilVars, toolVars>>

Init == PushInit /\ BranchInit /\ AuthInit /\ CreateInit /\ ActionInit /\ EntityInit /\ FileOpInit /\ UtilInit /\ ToolInit

PushNext ==
    /\ UNCHANGED <<branchVars, authVars, createVars, actionVars, entityVars, fileOpVars, utilVars, toolVars>>
    /\ \E p \in Procs :
        \/ push_files_content(p)
        \/ push_files_from_path(p)
        \/ ResolveHead(p)
        \/ BuildTree(p)
        \/ CreateCommit(p)
        \/ UpdateGetRef(p)
        \/ MoveReference(p)
        \/ RemoteCallFails(p)

BranchNext ==
    /\ UNCHANGED <<pushVars, authVars, createVars, actionVars, entityVars, fileOpVars, utilVars, toolVars>>
    /\ \/ \E branch \in BranchNames : get_branch(branch)
       \/ GbLookup
       \/ GbListCommits
       \/ GbSeed
       \/ GbRetry
       \/ GbFinish

\* calls of the factory made one after the other
AuthSeqNext ==
    /\ UNCHANGED <<pushVars, branchVars, createVars, actionVars, entityVars, fileOpVars, utilVars, toolVars>>
    /\ \/ \E token \in Tokens : create_client(token)
       \/ clear_cache

\* calls of create_client made from several threads at once
AuthNext ==
    /\ UNCHANGED <<pushVars, branchVars, createVars, actionVars, entityVars, fileOpVars, utilVars, toolVars>>
    /\ \E t \in Threads :
          \/ \E token \in Tokens : CcEnter(t, token)
          \/ CcCheck(t)
          \/ CcConstruct(t)
          \/ CcStore(t)
          \/ CcReturn(t)

CreateNext ==
    /\ UNCHANGED <<pushVars, branchVars, authVars, actionVars, entityVars, fileOpVars, utilVars, toolVars>>
    /\ \/ \E name \in NewBranchNames, source \in Sources, mock \in BOOLEAN :
             create_branch(name, source, mock)
       \/ CbGetRepository
       \/ CbGetBranch
       \/ CbGetCommit
       \/ CbCreateRef
       \/ CbFinish

ActionNext ==
    /\ UNCHANGED <<pushVars, branchVars, authVars, createVars, entityVars, fileOpVars, utilVars, toolVars>>
    /\ \/ AmReturn
       \/ \E workflow_id \in WorkflowIds, ws \in WorkflowLists :
             \/ \E fail \in Failures(WorkflowLookupCalls) :
                   get_workflow(workflow_id, ws, fail)
             \/ \E fail \in Failures(WorkflowLookupCalls
                                      \cup {"create_dispatch"}) :
                   trigger_workflow(workflow_id, ws, fail)
       \/ \E run_id \in RunIds :
             \/ \E fail \in Failures({"get_workflow_run"}) :
                   get_workflow_run(run_id, fail)
             \/ \E fail \in Failures({"get_workflow_run", "cancel"}) :
                   cancel_workflow_run(run_id, fail)
             \/ \E fail \in Failures({"get_workflow_run", "download_logs"}) :
                   get_workflow_run_logs(run_id, fail)
       \/ \E workflow_id \in OptionalSeq(WorkflowIds),
              branch \in Optional(RunBranches),
              event \in Optional(RunEvents),
              status \in Optional(RunStatuses),
              ws \in WorkflowLists, fail \in Failures(ListRunsCalls) :
             list_workflow_runs(workflow_id, branch, event, status, ws, fail)

EntityNext ==
    /\ UNCHANGED <<pushVars, branchVars, authVars, createVars, actionVars, fileOpVars, utilVars, toolVars>>
    /\ \/ EmReturn
       \/ \E number \in Numbers :
             \/ \E fail \in {NoFailure, "get_issue"} : get_issue(number, fail)
             \/ \E fail \in {NoFailure, "get_pull"} :
                   get_pull_request(number, fail)
             \/ \E fail \in {NoFailure, "get_commit"} :
                   get_commit(number, fail)
             \/ \E kwargs \in IssueKwargs,
                    fail \in {NoFailure, "get_issue", "edit"} :
                   update_issue(number, kwargs, fail)
             \/ \E kwargs \in PullKwargs,
                    fail \in {NoFailure, "get_pull", "edit"} :
                   update_pull_request(number, kwargs, fail)
       \/ \E kwargs \in IssueKwargs, fail \in {NoFailure, "create_issue"} :
             create_issue(kwargs, fail)
       \/ \E items \in ItemLists :
             \/ \E kwargs \in ListIssuesKwargs,
                    fail \in {NoFailure, "get_issues"} :
                   list_issues(kwargs, items, fail)
             \/ \E kwargs \in ListPullsKwargs,
                    fail \in {NoFailure, "get_pulls"} :
                   list_pull_requests(kwargs, items, fail)
             \/ \E kwargs \in SearchKwargs :
                   \/ \E fail \in {NoFailure, "get_issues"} :
                         search_issues(kwargs, items, fail)
                   \/ \E fail \in {NoFailure, "get_pulls"} :
                         search_pulls(kwargs, items, fail)
             \/ \E page \in Pages, per_page \in PerPages :
                   \/ \E kwargs \in ListCommitsKwargs,
                          fail \in {NoFailure, "get_commits", "get_page"} :
                         list_commits(kwargs, items, page, per_page, fail)
                   \/ \E kwargs \in SearchReposKwargs,
                          fail \in {NoFailure, "search_repositories",
                                    "get_page"} :
                         search_repositories(kwargs, items, page, per_page,
                                             fail)

FileOpNext ==
    /\ UNCHANGED <<pushVars, branchVars, authVars, createVars, actionVars,
                   entityVars, utilVars, toolVars>>
    /\ \/ FoReturn
       \/ \E branch \in BranchArgs, fails \in FileFailures :
             \/ \E sha \in ShaArgs :
                   create_or_update_file(sha, branch, fails)
             \/ \E existing \in ExistingFiles :
                   create_file(existing, branch, fails)

UtilNext ==
    /\ UNCHANGED <<pushVars, branchVars, authVars, createVars, actionVars, entityVars, fileOpVars, toolVars>>
    /\ \/ UtReturn
       \/ \E name \in Names : validate_branch_name(name)
       \/ \E path \in Names : validate_file_path(path)
       \/ \E content \in Contents : encode_content(content)
       \/ decode_content
       \/ \E dt \in Datetimes : format_datetime(dt)
       \/ format_datetime_now
       \/ parse_datetime
       \/ \E dt_str \in SampleTimestamps : parse_timestamp(dt_str)

ToolNext ==
    /\ UNCHANGED <<pushVars, branchVars, authVars, createVars, actionVars, entityVars, fileOpVars, utilVars>>
    /\ \/ TiReturn
       \/ \E sha \in ShaStrings : get_commit_input(sha)
       \/ \E tree_sha \in ShaStrings, parents \in ParentLists :
             create_commit_input(tree_sha, parents)
       \/ \E name \in BranchInputNames : create_branch_input(name)
       \/ \E name \in BranchInputNames : delete_branch_input(name)
       \/ \E count \in ReviewCounts : update_branch_protection_input(count)
       \/ \E count \in ReviewCounts, fail \in ProtectFailures :
             protect_branch(count, fail)

Next == PushNext \/ BranchNext \/ AuthSeqNext \/ AuthNext \/ CreateNext \/ ActionNext \/ EntityNext \/ FileOpNext \/ UtilNext \/ ToolNext

Spec == Init /\ [][Next]_vars

\* the push pipeline alone, the other managers at rest
PushSpecInit == PushInit /\ BranchIdle /\ AuthInit /\ CreateInit /\ ActionInit /\ EntityInit /\ FileOpInit /\ UtilInit /\ ToolInit

PushSpec == PushSpecInit /\ [][PushNext]_vars

\* get_branch alone
BranchSpecInit == BranchInit /\ PushIdle /\ AuthInit /\ CreateInit /\ ActionInit /\ EntityInit /\ FileOpInit /\ UtilInit /\ ToolInit

BranchSpec == BranchSpecInit /\ [][BranchNext]_vars

\* the client factory alone, called sequentially and called from threads
AuthSpecInit == AuthInit /\ PushIdle /\ BranchIdle /\ CreateInit /\ ActionInit /\ EntityInit /\ FileOpInit /\ UtilInit /\ ToolInit

AuthSeqSpec == AuthSpecInit /\ [][AuthSeqNext]_vars

AuthSpec == AuthSpecInit /\ [][AuthNext]_vars

\* create_branch alone
CreateSpecInit == CreateInit /\ PushIdle /\ BranchIdle /\ AuthInit /\ ActionInit /\ EntityInit /\ FileOpInit /\ UtilInit /\ ToolInit

CreateSpec == CreateSpecInit /\ [][CreateNext]_vars

\* the workflow manager alone
ActionSpecInit ==
    ActionInit /\ PushIdle /\ BranchIdle /\ AuthInit /\ CreateInit /\ EntityInit /\ FileOpInit /\ UtilInit /\ ToolInit

ActionSpec == ActionSpecInit /\ [][ActionNext]_vars

\* validations of tool inputs and calls of protect_branch
ToolSpecInit ==
    ToolInit /\ PushIdle /\ BranchIdle /\ AuthInit /\ CreateInit
        /\ ActionInit /\ EntityInit /\ FileOpInit /\ UtilInit

ToolSpec == ToolSpecInit /\ [][ToolNext]_vars


\* calls of the functions of common/utils.py
UtilSpecInit ==
    UtilInit /\ PushIdle /\ BranchIdle /\ AuthInit /\ CreateInit
        /\ ActionInit /\ EntityInit /\ FileOpInit /\ ToolInit

UtilSpec == UtilSpecInit /\ [][UtilNext]_vars


\* create_or_update_file and create_file alone
FileOpSpecInit ==
    FileOpInit /\ PushIdle /\ BranchIdle /\ AuthInit /\ CreateInit
        /\ ActionInit /\ EntityInit /\ UtilInit /\ ToolInit

FileOpSpec == FileOpSpecInit /\ [][FileOpNext]_vars


\* the issue, pull request, commit and search managers alone
EntitySpecInit ==
    EntityInit /\ PushIdle /\ BranchIdle /\ AuthInit /\ CreateInit
        /\ ActionInit /\ FileOpInit /\ UtilInit /\ ToolInit

EntitySpec == EntitySpecInit /\ [][EntityNext]_vars

(***************************************************************************)
(* Claims about the file push pipeline                                     *)
(***************************************************************************)
\* the head SHA the remote returned to the invocation in step 1
HeadRead(p) == SelectCalls(calls[p], {"get_git_ref"})[1].sha

\* the tree-create, commit-create and reference-update calls of an invocation
WriteCalls(p) ==
    SelectCalls(calls[p], {"create_git_tree", "create_git_commit", "edit"})

\* C1: a completed push issued exactly one tree-create (one entry per file,
\* base = the head H read in step 1), then exactly one commit-create (tree =
\* the new tree, parents = [H]), then exactly one reference update of the
\* branch to the new commit.
C1_PushCallOrder ==
    \A p \in Procs : pc[p] = "done" =>
        LET w == WriteCalls(p)
            H == HeadRead(p)
            files == config[p].files
        IN /\ Len(w) = 3
           /\ w[1].op = "create_git_tree"
           /\ Len(w[1].b) = Len(files)
           /\ \A i \in 1..Len(files) :
                 /\ w[1].b[i].path = files[i].path
                 /\ w[1].b[i].content = files[i].content
           /\ w[1].a = H
           /\ w[2].op = "create_git_commit"
           /\ w[2].a = w[1].sha
           /\ w[2].b = <<H>>
           /\ w[3].op = "edit"
           /\ w[3].ref = config[p].branch
           /\ w[3].sha = w[2].sha

C1_Witness ==
    \E p \in Procs :
        /\ pc[p] = "done"
        /\ Len(config[p].files) = 2
        /\ config[p].files[1].path = "A"
        /\ config[p].files[2].path = "B"

\* C2: when the branch has moved since an invocation read its head, the
\* reference update of that invocation is still accepted; the branch then
\* points at a commit whose only parent is the stale head, the commit the
\* branch pointed at before is no longer reachable from it, and no
\* invocation gets an error.
C2_NoConflictDetection ==
    [][\A p \in Procs :
          ( /\ pc[p] = "edit"
            /\ Len(calls'[p]) = Len(calls[p]) + 1
            /\ calls'[p][Len(calls'[p])].op = "edit"
            /\ refs[config[p].branch] # commit_sha[p] )
          => /\ pc'[p] = "done"
             /\ err' = err
             /\ err[p] = "none"
             /\ refs'[config[p].branch] = commit[p]
             /\ commits[commit[p]].parents = <<commit_sha[p]>>
             /\ refs[config[p].branch] \notin Ancestors(commit[p])]_vars

C2_Witness ==
    \E p, q \in Procs :
        /\ p # q
        /\ pc[p] = "done" /\ pc[q] = "done"
        /\ err[p] = "none" /\ err[q] = "none"
        /\ config[p].branch = config[q].branch
        /\ commit_sha[p] = commit_sha[q]
        /\ refs[config[p].branch] = commit[p]
        /\ commit[q] \notin Ancestors(refs[config[p].branch])

\* C3: the head is read once, before the tree is built, and every tree the
\* invocation creates has that value as base and every commit it creates
\* has that value as only parent, wherever the branch points by then.
C3_SameParentSha ==
    \A p \in Procs :
        /\ pc[p] \in {"tree", "commit", "getref", "edit", "done"} =>
              /\ calls[p][1].op = "get_git_ref"
              /\ commit_sha[p] = HeadRead(p)
        /\ \A i \in 1..Len(calls[p]) :
              /\ calls[p][i].op = "create_git_tree" =>
                    /\ i = 2
                    /\ calls[p][i].a = HeadRead(p)
              /\ calls[p][i].op = "create_git_commit" =>
                    /\ i = 3
                    /\ calls[p][i].b = <<HeadRead(p)>>

C3_Witness ==
    \E p \in Procs :
        /\ Len(calls[p]) >= 3
        /\ calls[p][2].op = "create_git_tree"
        /\ calls[p][2].head # HeadRead(p)
        /\ calls[p][3].op = "create_git_commit"
        /\ calls[p][3].head # HeadRead(p)

\* some path listed by the invocation does not exist locally
MissingLocalFile(p) ==
    \E i \in 1..Len(local_paths[p]) : fs[local_paths[p][i].filepath] = "absent"

\* C4: a push from local paths of which one does not exist ends with
\* FileNotFoundError and has issued no remote call, wherever the missing
\* path is in the list.
C4_MissingFileFailsFast ==
    \A p \in Procs :
        MissingLocalFile(p) =>
            /\ pc[p] = "failed"
            /\ err[p] = "FileNotFoundError"
            /\ calls[p] = <<>>
            /\ config[p] = NoConfig

C4_Witness ==
    \E p \in Procs :
        /\ Len(local_paths[p]) = 2
        /\ fs[local_paths[p][1].filepath] # "absent"
        /\ fs[local_paths[p][2].filepath] = "absent"
        /\ err[p] = "FileNotFoundError"
        /\ calls[p] = <<>>

(***************************************************************************)
(* Claims about BranchManager.get_branch                                   *)
(***************************************************************************)
\* number of calls of one operation in a call log
RECURSIVE CountOp(_, _)
CountOp(log, op) ==
    IF log = <<>> THEN 0
    ELSE (IF Head(log).op = op THEN 1 ELSE 0) + CountOp(Tail(log), op)

\* the first lookup failed because the branch is missing and the
\* repository had no commit
EmptyRepoCase ==
    /\ gb_empty_start
    /\ IsBranchNotFound(gb_e)

ClientCalls(token) ==
    {i \in 1..Len(auth_log) :
        auth_log[i].op = "create_client" /\ auth_log[i].token = token}

\* no clear_cache between positions i and j of the log
NoClearBetween(i, j) ==
    \A k \in (i + 1)..(j - 1) : auth_log[k].op # "clear_cache"

\* position i is the first call for its token since the cache was last empty
FirstSinceClear(i) ==
    \A k \in 1..(i - 1) :
        (auth_log[k].op = "create_client"
            /\ auth_log[k].token = auth_log[i].token)
        => ~NoClearBetween(k, i)

\* C7: the first create_client for a credential constructs one client;
\* every later call with that credential, while the cache is not cleared,
\* returns the same handle and constructs nothing; calls with different
\* credentials return different handles.
C7_ClientCachedPerToken ==
    /\ \A token \in Tokens : \A i \in ClientCalls(token) :
          /\ FirstSinceClear(i) => auth_log[i].built = 1
          /\ \A j \in ClientCalls(token) :
                (i < j /\ NoClearBetween(i, j)) =>
                    /\ auth_log[j].handle = auth_log[i].handle
                    /\ auth_log[j].built = 0
    /\ \A i, j \in 1..Len(auth_log) :
          ( /\ auth_log[i].op = "create_client"
            /\ auth_log[j].op = "create_client"
            /\ auth_log[i].token # auth_log[j].token )
          => auth_log[i].handle # auth_log[j].handle

C7_Witness ==
    /\ Len(auth_log) >= 3
    /\ auth_log[1].op = "create_client" /\ auth_log[1].built = 1
    /\ auth_log[2].op = "create_client" /\ auth_log[2].built = 0
    /\ auth_log[2].token = auth_log[1].token
    /\ auth_log[2].handle = auth_log[1].handle
    /\ auth_log[3].op = "create_client" /\ auth_log[3].built = 1
    /\ auth_log[3].token # auth_log[1].token
    /\ auth_log[3].handle # auth_log[1].handle

\* C8: two callers of create_client that have returned with the same
\* credential hold the same handle, and at most one client more than one
\* per credential was constructed.
C8_RaceConverges ==
    /\ \A t, u \in Threads :
          ( /\ cc_pc[t] = "done" /\ cc_pc[u] = "done"
            /\ cc_token[t] = cc_token[u] )
          => cc_result[t] = cc_result[u]
    /\ constructed <= Cardinality(Tokens) + 1

\* C9: the first create_client after a clear_cache constructs a client for
\* any credential, and the handle it returns is none of the handles
\* returned before the clear.
C9_ClearEvictsAll ==
    \A c \in 1..Len(auth_log) : auth_log[c].op = "clear_cache" =>
        \A j \in (c + 1)..Len(auth_log) :
            ( /\ auth_log[j].op = "create_client"
              /\ \A k \in (c + 1)..(j - 1) :
                    auth_log[k].token # auth_log[j].token )
            => /\ auth_log[j].built = 1
               /\ \A i \in 1..(c - 1) :
                     auth_log[i].handle # auth_log[j].handle

C9_Witness ==
    /\ Len(auth_log) >= 3
    /\ auth_log[1].op = "create_client"
    /\ auth_log[2].op = "clear_cache"
    /\ auth_log[3].op = "create_client"
    /\ auth_log[3].token = auth_log[1].token
    /\ auth_log[3].built = 1
    /\ auth_log[3].handle # auth_log[1].handle

(***************************************************************************)
(* Claims about RepositoryManager.create_branch                            *)
(***************************************************************************)
\* the call of an operation in the log of the invocation, if there is one
CbCallsOf(op) == {i \in 1..Len(cb_calls) : cb_calls[i].op = op}

\* C10: the reference created is refs/heads/<name>; its SHA is the head of
\* the branch named source if that lookup succeeded, else the SHA of the
\* commit named source if that lookup succeeded, else the source string;
\* the commit lookup is made only after the branch lookup failed, and the
\* reference is created only after the lookups.
C10_SourceResolutionOrder ==
    /\ Cardinality(CbCallsOf("get_branch")) <= 1
    /\ Cardinality(CbCallsOf("get_commit")) <= 1
    /\ \A c \in CbCallsOf("get_commit") :
          \E b \in CbCallsOf("get_branch") : b < c /\ ~cb_calls[b].ok
    /\ \A r \in CbCallsOf("create_git_ref") :
          /\ cb_calls[r].arg = "refs/heads/" \o cb_name
          /\ \E b \in CbCallsOf("get_branch") :
                /\ b < r
                /\ cb_calls[b].arg = cb_source
                /\ IF cb_calls[b].ok
                   THEN /\ cb_calls[r].sha = SourceHeads[cb_source]
                        /\ CbCallsOf("get_commit") = {}
                   ELSE \E c \in CbCallsOf("get_commit") :
                          /\ c < r
                          /\ cb_calls[c].arg = cb_source
                          /\ cb_calls[r].sha =
                                IF cb_calls[c].ok
                                THEN SourceCommits[cb_source]
                                ELSE cb_source
    /\ cb_pc = "returned" /\ ~cb_mock =>
          /\ ref_name(cb_name) \in DOMAIN cb_refs
          /\ cb_result.sha = cb_refs[ref_name(cb_name)]

C10_Witness ==
    /\ cb_pc = "returned"
    /\ ~cb_mock
    /\ cb_source = "c0ffee1"
    /\ cb_result = [name |-> "topic", sha |-> "c0ffee1234"]
    /\ cb_refs["refs/heads/topic"] = "c0ffee1234"
    /\ Len(cb_calls) = 4
    /\ ~cb_calls[2].ok
    /\ cb_calls[3].ok

\* the workflow get_workflow was asked for is absent: no workflow has the
\* numeric ID, or no workflow path ends with the filename
WorkflowAbsent ==
    LET id == am_in.workflow_id.v
        ws == am_in.ws
    IN  IF isdigit(id)
        THEN \A i \in 1..Len(ws) : ws[i].id # int(id)
        ELSE \A i \in 1..Len(ws) : ~endswith(ws[i].path, id)

\* C11: get_workflow looks a pure-digit input up as a numeric ID; any other
\* input is matched against the listed workflows and the first whose path
\* ends with it is returned; when nothing matches, NotFoundError is raised.
C11_GetWorkflowLookup ==
    am_op = "get_workflow" /\ am_in.fail = NoFailure =>
        LET id == am_in.workflow_id.v
            ws == am_in.ws
        IN  /\ IF isdigit(id)
               THEN am_calls = <<AmCall("get_workflow", int(id), "")>>
               ELSE am_calls = <<AmCall("get_workflows", 0, "")>>
            /\ am_out.ok =>
                  \E i \in 1..Len(ws) :
                     /\ am_out.value = <<ws[i]>>
                     /\ IF isdigit(id) THEN ws[i].id = int(id)
                        ELSE /\ endswith(ws[i].path, id)
                             /\ \A j \in 1..(i - 1) :
                                   ~endswith(ws[j].path, id)
            /\ WorkflowAbsent => ~am_out.ok /\ am_out.class = "NotFoundError"

\* the filter calls list_workflow_runs made, in the order it made them
AmFilterCalls ==
    SelectSeq(am_calls,
              LAMBDA c : c.op \in {"get_branch", "get_event", "get_status"})

\* the filters the caller provided: branch, then event, then status
ProvidedFilters ==
    LET f == am_in.filters
    IN  (IF f.branch.tag = "value"
         THEN <<AmCall("get_branch", 0, f.branch.v)>> ELSE <<>>)
        \o (IF f.event.tag = "value"
            THEN <<AmCall("get_event", 0, f.event.v)>> ELSE <<>>)
        \o (IF f.status.tag = "value"
            THEN <<AmCall("get_status", 0, f.status.v)>> ELSE <<>>)

\* the runs of the list that satisfy every provided filter
RunsMatching(runs) ==
    LET f == am_in.filters
    IN  SelectSeq(runs, LAMBDA r :
            /\ f.branch.tag = "value" => r.branch = f.branch.v
            /\ f.event.tag = "value" => r.event = f.event.v
            /\ f.status.tag = "value" => r.status = f.status.v)

AmCallsOf(op) == {i \in 1..Len(am_calls) : am_calls[i].op = op}

\* C12: list_workflow_runs starts from the runs of the given workflow, or
\* from all runs of the repository when no workflow is given; it then applies
\* the branch, event and status filters in that order, each one only if
\* provided, each exactly once, each to the result of the step before.
C12_RunFilterOrder ==
    am_op = "list_workflow_runs" =>
        /\ IF Truthy(am_in.workflow_id)
           THEN /\ AmCallsOf("get_workflow_runs") = {}
                /\ am_out.ok => Cardinality(AmCallsOf("get_runs")) = 1
           ELSE /\ AmCallsOf("get_runs") = {}
                /\ AmCallsOf("get_workflow_runs") = {1}
        /\ Len(AmFilterCalls) <= Len(ProvidedFilters)
        /\ AmFilterCalls = SubSeq(ProvidedFilters, 1, Len(AmFilterCalls))
        /\ \A i \in 1..Len(am_calls) :
              am_calls[i].op \in {"get_branch", "get_event", "get_status"} =>
                 \E j \in 1..(i - 1) :
                    am_calls[j].op \in {"get_runs", "get_workflow_runs"}
        /\ am_out.ok =>
              /\ AmFilterCalls = ProvidedFilters
              /\ am_out.value =
                    RunsMatching(
                       IF Truthy(am_in.workflow_id)
                       THEN LET w == GetWorkflow(am_in.workflow_id.v,
                                                 am_in.ws, NoFailure)
                            IN  SelectSeq(RepoRuns, LAMBDA r :
                                    r.workflow = w.out.value[1].id)
                       ELSE RepoRuns)

C12_Witness ==
    /\ am_op = "list_workflow_runs"
    /\ am_out.ok
    /\ am_in.workflow_id = Some(<<"a">>)
    /\ am_in.ws = <<WorkflowA, WorkflowB>>
    /\ am_in.filters = [branch |-> Some("main"),
                        event |-> Some("pull_request"),
                        status |-> Some("queued")]
    /\ Len(AmFilterCalls) = 3
    /\ am_out.value = <<RepoRuns[4]>>

\* the run asked for is absent from the repository
RunAbsent == \A i \in 1..Len(RepoRuns) : RepoRuns[i].id # am_in.run_id

\* C19: trigger_workflow raises NotFoundError when the workflow is not
\* found, cancel_workflow_run and get_workflow_run_logs raise NotFoundError
\* when the run is not found, and any other failure raises a GitHubError
\* that is not a NotFoundError.
C19_NotFoundSurfaces ==
    /\ am_op = "trigger_workflow" /\ am_in.fail = NoFailure /\ WorkflowAbsent
          => ~am_out.ok /\ am_out.class = "NotFoundError"
    /\ am_op \in {"cancel_workflow_run", "get_workflow_run_logs"}
          /\ am_in.fail = NoFailure /\ RunAbsent
          => ~am_out.ok /\ am_out.class = "NotFoundError"
    /\ am_op \in {"trigger_workflow", "cancel_workflow_run",
                  "get_workflow_run_logs"}
          /\ ~am_out.ok /\ am_out.cause = ServerError
          => am_out.class = "GitHubError"

EmCallsOf(op) == {i \in 1..Len(em_calls) : em_calls[i].op = op}

\* the edit calls of the last update that carry the field f
EditsOf(f) == {i \in EmCallsOf("edit") : f \in DOMAIN em_calls[i].args}

\* C13: a completed update sends an edit for exactly the fields the caller
\* set in the partial config, with the value set; a field the caller did
\* not set appears in no edit call and keeps its value on the remote entity.
C13_EditsExactlySetFields ==
    em_op \in {"update_issue", "update_pull_request"} /\ em_out.ok =>
        \A f \in DOMAIN em_in.kwargs :
            IF em_in.kwargs[f] # NoneValue
            THEN /\ Cardinality(EditsOf(f)) = 1
                 /\ \A i \in EditsOf(f) : em_calls[i].args[f] = em_in.kwargs[f]
            ELSE /\ EditsOf(f) = {}
                 /\ em_entity[f] =
                       IF em_op = "update_issue" THEN IssueOnRemote[f]
                       ELSE PullOnRemote[f]

ListOps ==
    {"list_issues", "list_pull_requests", "search_issues", "search_pulls",
     "list_commits", "search_repositories"}

\* C14: in the remote call of a list or search operation no argument is
\* None, and every optional filter the caller left out is the NotSet
\* sentinel.
C14_UnsetFiltersAreNotSet ==
    em_op \in ListOps =>
        \A i \in 1..Len(em_calls) :
            /\ \A a \in DOMAIN em_calls[i].args :
                  em_calls[i].args[a] # NoneValue
            /\ i = 1 =>
                  \A f \in DOMAIN em_in.kwargs :
                     em_in.kwargs[f] = NoneValue =>
                        \A a \in DOMAIN em_calls[1].args :
                           a = (IF f = "branch" THEN "sha" ELSE f) =>
                              em_calls[1].args[a] = NotSetValue

\* C15: a list operation given a page number p calls the remote page fetch
\* with p and returns that page as it is; given no page but per_page = n it
\* returns the first n items, or all of them when there are fewer; given
\* neither it returns all items.
C15_Pagination ==
    em_op \in {"list_commits", "search_repositories"} /\ em_out.ok =>
        IF em_in.page # NoneInt
        THEN /\ Cardinality(EmCallsOf("get_page")) = 1
             /\ \A i \in EmCallsOf("get_page") :
                   em_calls[i].args = NumberArg(em_in.page.v)
             /\ em_out.value = RemotePage(em_in.items, em_in.page.v)
        ELSE /\ EmCallsOf("get_page") = {}
             /\ IF em_in.per_page # NoneInt
                THEN /\ Len(em_out.value) =
                           Min(em_in.per_page.v, Len(em_in.items))
                     /\ \A i \in 1..Len(em_out.value) :
                           em_out.value[i] = em_in.items[i]
                ELSE em_out.value = em_in.items

C15_Witness ==
    /\ em_op = "list_commits"
    /\ em_out.ok
    /\ em_in.page = NoneInt
    /\ em_in.per_page = Some(1)
    /\ Len(em_in.items) = 2
    /\ em_out.value = <<1>>

\* C16: create_issue with a title and neither body nor labels makes one
\* remote create call, with the empty string as body and the empty list as
\* labels; no body or labels argument is ever None.
C16_CreateIssueDefaults ==
    em_op = "create_issue" =>
        /\ Len(em_calls) = 1
        /\ em_calls[1].op = "create_issue"
        /\ em_calls[1].args.title = em_in.kwargs.title
        /\ em_calls[1].args.body # NoneValue
        /\ em_calls[1].args.labels # NoneValue
        /\ em_in.kwargs.body = NoneValue => em_calls[1].args.body = Some("")
        /\ em_in.kwargs.labels = NoneValue =>
              em_calls[1].args.labels = Some("[]")

C16_Witness ==
    /\ em_op = "create_issue"
    /\ em_out.ok
    /\ em_in.kwargs.body = NoneValue
    /\ em_in.kwargs.labels = NoneValue
    /\ em_calls[1].args.body = Some("")
    /\ em_calls[1].args.labels = Some("[]")

\* C18: a get-by-identifier operation of a manager (issue, pull request,
\* commit, workflow run, workflow) raises NotFoundError when the remote
\* reports the entity as absent.
C18_GetAbsentIsNotFound ==
    /\ em_op \in {"get_issue", "get_pull_request", "get_commit"}
          /\ em_in.fail = NoFailure /\ em_in.number \notin ExistingNumbers
          => ~em_out.ok /\ em_out.class = "NotFoundError"
    /\ am_op = "get_workflow_run" /\ am_in.fail = NoFailure /\ RunAbsent
          => ~am_out.ok /\ am_out.class = "NotFoundError"
    /\ am_op = "get_workflow" /\ am_in.fail = NoFailure
          /\ isdigit(am_in.workflow_id.v) /\ WorkflowAbsent
          => ~am_out.ok /\ am_out.class = "NotFoundError"

\* C17: a remote call that fails inside a manager method makes the method
\* raise, with that failure as the error or its cause; the method makes no
\* further remote call after a failed one.
C17_RemoteFailureSurfaces ==
    fo_op # "none" =>
        \A i \in 1..Len(fo_calls) :
            ~fo_calls[i].ok =>
                /\ i = Len(fo_calls)
                /\ ~fo_out.ok
                /\ fo_out.msg \in {ServerError, UnknownObject}
                      \/ fo_out.cause \in {ServerError, UnknownObject}

FoWrites ==
    {i \in 1..Len(fo_calls) : fo_calls[i].op \in {"create_file", "update_file"}}

\* C20: create_or_update_file makes exactly one remote write: update_file
\* with the given SHA when a SHA is given, create_file when the SHA is
\* left out; update_file is never called without a SHA.
C20_OneWriteShaDecides ==
    fo_op = "create_or_update_file" =>
        /\ Len(fo_calls) = 1
        /\ FoWrites = {1}
        /\ fo_in.sha = NoneValue => fo_calls[1].op = "create_file"
        /\ fo_in.sha.tag = "value" /\ fo_in.sha.v # "" =>
              /\ fo_calls[1].op = "update_file"
              /\ fo_calls[1].sha = fo_in.sha
        /\ fo_calls[1].op = "update_file" =>
              fo_calls[1].sha.tag = "value" /\ fo_calls[1].sha.v # ""

C20_Witness ==
    /\ fo_op = "create_or_update_file"
    /\ fo_out.ok
    /\ fo_in.sha = Some("3b18e5")
    /\ fo_in.branch = Some("main")
    /\ fo_calls = <<FoCall("update_file", Some("3b18e5"), Some("main"), TRUE)>>

\* C30: create_file attempts exactly one content write per call:
\* update_file with the existing file's SHA when the path exists (and no
\* create_file), create_file only when it does not; in no execution, one
\* with a failing update included, are both an update and a create issued.
C30_CreateFileOneWrite ==
    fo_op = "create_file" =>
        /\ Cardinality(FoWrites) = 1
        /\ fo_in.existing = "file" =>
              \A i \in FoWrites :
                  /\ fo_calls[i].op = "update_file"
                  /\ fo_calls[i].sha = Some(ExistingSha)
        /\ fo_in.existing = "absent" =>
              \A i \in FoWrites : fo_calls[i].op = "create_file"
        /\ ~ \E i, j \in FoWrites :
                fo_calls[i].op = "update_file" /\ fo_calls[j].op = "create_file"

\* the remote calls of one invocation of the pipeline, in order
PipelineCalls ==
    <<"get_git_ref", "create_git_tree", "create_git_commit", "get_git_ref",
      "edit">>

\* the calls an invocation has made before the call of a step
CallsBefore(step) ==
    CASE step = "failed:resolve" -> 0
      [] step = "failed:tree" -> 1
      [] step = "failed:commit" -> 2

MadeEdit(q) == \E j \in 1..Len(calls[q]) : calls[q][j].op = "edit"

\* C29: when the head lookup, the tree creation or the commit creation of
\* the push pipeline fails, the invocation ends at once with that error:
\* the failed call is its last call, the calls before it are the steps
\* before it, each made once, and the invocation never moves the branch
\* reference, which stays where it was unless another invocation moved it.
C29_FailureStopsPipeline ==
    \A p \in Procs :
        \A i \in 1..Len(calls[p]) :
            calls[p][i].op \in {"failed:resolve", "failed:tree",
                                "failed:commit"} =>
                /\ i = Len(calls[p])
                /\ pc[p] = "failed"
                /\ err[p] = "GithubException"
                /\ i = CallsBefore(calls[p][i].op) + 1
                /\ \A j \in 1..(i - 1) : calls[p][j].op = PipelineCalls[j]
                /\ ~MadeEdit(p)
                /\ (\A q \in Procs \ {p} : ~MadeEdit(q)) =>
                      RemoteHead(p) = InitialCommit

C29_Witness ==
    \E p \in Procs :
        /\ pc[p] = "failed"
        /\ Len(calls[p]) = 3
        /\ calls[p][3].op = "failed:commit"
        /\ tree[p] # None
        /\ commit[p] = None
        /\ RemoteHead(p) = InitialCommit

\* the pagination arguments of the call are outside page >= 1 and
\* 1 <= per_page <= 100
PaginationOutOfRange ==
    \/ em_in.page # NoneInt /\ em_in.page.v < 1
    \/ em_in.per_page # NoneInt
          /\ (em_in.per_page.v < 1 \/ em_in.per_page.v > 100)

\* C23: every list or search operation that takes pagination rejects
\* page < 1 and per_page outside 1..100 with a validation error before it
\* makes any remote call.
C23_PaginationValidated ==
    em_op \in {"list_commits", "search_repositories"} /\ PaginationOutOfRange
        => /\ ~em_out.ok
           /\ em_out.class = "ValidationError"
           /\ em_calls = <<>>

\* the substring pat occurs somewhere in s
Occurs(s, pat) == \E i \in 1..Len(s) : OccursAt(s, pat, i)

HasControlChar(s) == \E i \in 1..Len(s) : s[i] \in ControlChars

\* C21: validate_branch_name returns false for every name that contains
\* "..", starts with a dot, ends with a slash, contains "@{" or contains a
\* control character at any position, and true for the well-formed names
\* "main" and "feature/new-feature".
C21_BranchNameRejections ==
    ut_op = "validate_branch_name" =>
        /\ \/ Occurs(ut_arg, <<".", ".">>)
           \/ OccursAt(ut_arg, <<".">>, 1)
           \/ OccursAt(ut_arg, <<"/">>, Len(ut_arg))
           \/ Occurs(ut_arg, <<"@", "{">>)
           \/ HasControlChar(ut_arg)
           => ut_out = FALSE
        /\ ut_arg \in { <<"m", "a", "i", "n">>,
                        <<"f", "e", "a", "t", "u", "r", "e", "/", "n", "e",
                          "w", "-", "f", "e", "a", "t", "u", "r", "e">> }
           => ut_out = TRUE

\* C22: validate_file_path returns true exactly for the paths that do not
\* start with "/", contain no ".." and no control character; the empty
\* path and a path with a "." segment such as "path/./file" are rejected.
C22_FilePathAccepted ==
    ut_op = "validate_file_path" =>
        /\ ut_out = TRUE <=>
              /\ ~OccursAt(ut_arg, <<"/">>, 1)
              /\ ~Occurs(ut_arg, <<".", ".">>)
              /\ ~HasControlChar(ut_arg)
              /\ ut_arg # <<>>
              /\ ~Occurs(ut_arg, <<"/", ".", "/">>)

\* C27: decode_content(encode_content(s)) is s for every text s, the
\* empty text and texts with multi-byte characters included.
C27_ContentRoundTrip ==
    ut_op = "decode_content" => ut_out = Decoded(ut_arg)

C27_Witness ==
    /\ ut_op = "decode_content"
    /\ ut_arg = <<128512, 233>>
    /\ ut_out = Decoded(<<128512, 233>>)

\* C28: parse_datetime(format_datetime(dt)) denotes the same instant as dt
\* for every aware datetime dt, with any UTC offset and any microsecond.
C28_DatetimeRoundTrip ==
    ut_op = "parse_datetime" =>
        /\ ut_out.ok
        /\ Instant(ut_out.v) = Instant(ut_arg)

C28_Witness ==
    /\ ut_op = "parse_datetime"
    /\ ut_arg.offset = 0 - 19800
    /\ ut_arg.microsecond = 999999
    /\ ut_out.ok
    /\ ut_out.v = ut_arg

\* C24: a tool input field that holds a commit SHA accepts exactly the
\* strings of 7 to 40 lower-case hexadecimal characters, and a field that
\* holds a tree SHA exactly the strings of 40 such characters.
C24_ShaFieldsAccepted ==
    /\ ti_op = "GetCommitInput" =>
          (ti_out = TRUE <=> COMMIT_SHA_PATTERN(ti_in.sha))
    /\ ti_op = "CreateCommitInput" /\ ti_out = TRUE =>
          /\ Len(ti_in.tree) = 40
          /\ COMMIT_SHA_PATTERN(ti_in.tree)
          /\ \A i \in 1..Len(ti_in.parents) :
                COMMIT_SHA_PATTERN(ti_in.parents[i])
    /\ ti_op = "CreateCommitInput"
          /\ Len(ti_in.tree) = 40 /\ COMMIT_SHA_PATTERN(ti_in.tree)
          /\ ti_in.parents # <<>>
          /\ (\A i \in 1..Len(ti_in.parents) :
                COMMIT_SHA_PATTERN(ti_in.parents[i]))
          => ti_out = TRUE

StartsWithOneOf(s, prefixes) == \E p \in prefixes : startswith(s, p)

\* C25 as stated: every branch name accepted by the create-branch or the
\* delete-branch input starts with feature/, bugfix/, release/ or hotfix/.
C25_FourPrefixesOnly ==
    ti_op \in {"CreateBranchInput", "DeleteBranchInput"} /\ ti_out = TRUE
        => StartsWithOneOf(ti_in.name, BranchPrefixes)

\* C25: every branch name accepted by the create-branch input starts with
\* feature/, bugfix/, release/ or hotfix/; the delete-branch input accepts
\* these and the names that start with develop; every other name, main
\* and master included, is rejected by both.
C25_BranchInputPrefixes ==
    /\ ti_op = "CreateBranchInput" /\ ti_out = TRUE
          => StartsWithOneOf(ti_in.name, BranchPrefixes)
    /\ ti_op = "DeleteBranchInput" /\ ti_out = TRUE
          => StartsWithOneOf(ti_in.name, BranchPrefixes \cup {Develop})
    /\ ti_op \in {"CreateBranchInput", "DeleteBranchInput"}
          /\ ti_in.name \in {Main, Master}
          => ti_out = FALSE

C25_Witness ==
    /\ ti_op = "DeleteBranchInput"
    /\ ti_in.name = Develop
    /\ ti_out = TRUE

\* C26: the required approving review count that protect_branch sends to
\* the remote is always between 1 and 6; a count outside that range is
\* rejected by input validation.
C26_ReviewCountInRange ==
    /\ ti_op = "protect_branch" =>
          \A i \in 1..Len(ti_calls) :
              ti_calls[i].op = "edit_protection" =>
                  ti_calls[i].arg >= 1 /\ ti_calls[i].arg <= 6
    /\ ti_op = "UpdateBranchProtectionInput"
          /\ ti_in.count # NoneInt
          /\ (ti_in.count.v < 1 \/ ti_in.count.v > 6)
          => ti_out = FALSE
    /\ ti_op = "protect_branch"
          /\ ti_in.count # NoneInt
          /\ (ti_in.count.v < 1 \/ ti_in.count.v > 6)
          => /\ ~ti_out.ok
             /\ ti_out.class = "ValidationError"
             /\ ti_calls = <<>>

====
